---- MODULE Spec2Model ----
(***************************************************************************)
(* A model of the PTO vacation optimizer (src/src/pto/optimizer.py).       *)
(*                                                                         *)
(* The calendar is a scaled year: NumDays consecutive days starting on an  *)
(* arbitrary weekday, seven-day weeks with Saturday and Sunday off, four   *)
(* quarters of NumDays \div 4 days (the last one takes the remainder), and *)
(* one month per quarter.  A date is its day index (dates[i] is the        *)
(* bijection i |-> Jan 1 + i days).  Rewards are integers: the source's    *)
(* float reward multiplied by 1000 (Milli) and by 2 (seasonal weights are  *)
(* counted in halves).  The year has year_days days: NumDays in general,  *)
(* LongYearDays where a run of days off has to earn more than WindowBonus; *)
(* there optimize_longest_vacation is followed statement by statement.     *)
(***************************************************************************)
EXTENDS Integers, Sequences, FiniteSets, TLC

\* ------------------------------------------------------------------ bounds
NumDays == 8
MaxPto == 2
MaxFloat == 1
MaxHolidays == 1
MaxCalls == 3
MaxQuarterTotal == 6
LongYearDays == 142

\* -------------------------------------------------------- program constants
Saturday == 5
WindowBonus == 1000
ShortBreakLen == 4
LongBreakPenalty == 10
Milli == 1000

NoneVal == 0 - 1

VARIABLES
    start_weekday,      \* self.start_date.weekday(), 0 = Monday
    holidays,           \* self.holidays, as day indices
    pto_budget,         \* self.pto_budget
    floating_holidays,  \* self.floating_holidays
    pinned_dates,       \* self.pinned_dates, as day indices
    blackout_dates,     \* self.blackout_dates, as day indices
    max_block_days,     \* self.max_block_days, NoneVal for None
    min_gap_days,       \* self.min_gap_days
    monthly_pto_cap,    \* self.monthly_pto_cap, NoneVal for None
    seasonal_weights,   \* self.seasonal_weights: month -> weight in halves;
                        \* the empty mapping stands for None as well
    engine,             \* the class of the optimizer that was constructed
    groups,             \* MultiGroupOptimizer.groups: a sequence of HolidayGroup
    strategy,           \* the strategy method that returned last, "none" before
    plan,               \* the Plan a PTOOptimizer strategy returned
    mplan,              \* the MultiGroupPlan a MultiGroupOptimizer strategy returned
    error,              \* the exception that reached the caller last, "none" if none
    plans,              \* the list generate_all_plans returned, <<>> before
    history,            \* the results of the repeated strategy calls, in call order
    year_days,          \* self.num_days, the number of days of the year
    run                 \* the locals of an optimize_longest_vacation call that is
                        \* followed statement by statement, NoRun otherwise

vars == <<start_weekday, holidays, pto_budget, floating_holidays, pinned_dates,
          blackout_dates, max_block_days, min_gap_days, monthly_pto_cap,
          seasonal_weights, engine, groups, strategy, plan, mplan, error, plans,
          history, year_days, run>>

\* ---------------------------------------------------------------- calendar
num_days == year_days
Days == 0 .. (num_days - 1)

is_weekend(d) == ((start_weekday + d) % 7) >= Saturday
is_holiday(d) == d \in holidays
is_natural_off(d) == is_weekend(d) \/ is_holiday(d)
is_pinned(d) == d \in pinned_dates
\* faulty variant of is_blackout: the day index is off by one
is_blackout_shifted(d) == (d + 1) \in blackout_dates
is_blackout(d) == d \in blackout_dates

QuarterLen == num_days \div 4
quarter_bounds ==
    << <<0, QuarterLen - 1>>,
       <<QuarterLen, 2 * QuarterLen - 1>>,
       <<2 * QuarterLen, 3 * QuarterLen - 1>>,
       <<3 * QuarterLen, num_days - 1>> >>

\* d.month: the scaled year has one month per quarter
month_of(d) == IF d \div QuarterLen >= 3 THEN 4 ELSE (d \div QuarterLen) + 1
Months == 1 .. 4

\* ------------------------------------------------------------ small helpers
Min(a, b) == IF a <= b THEN a ELSE b
Max(a, b) == IF a >= b THEN a ELSE b

RECURSIVE SortedSeq(_)
SortedSeq(S) ==
    IF S = {} THEN <<>>
    ELSE LET m == CHOOSE x \in S : \A y \in S : x <= y
         IN <<m>> \o SortedSeq(S \ {m})

SeqSet(s) == {s[i] : i \in DOMAIN s}
SortInts(s) == SortSeq(s, LAMBDA a, b : a < b)

\* ----------------------------------------------------------- value functions
\* 1000 * 0.1 * ln(1 + k), rounded down; k = s - max_block_days
Log1pTable == <<69, 109, 138, 160, 179, 194, 207, 219, 230, 239,
                248, 256, 263, 270, 277, 283, 289, 294, 299, 304>>
Log1pMilli(k) == IF k <= Len(Log1pTable) THEN Log1pTable[k] ELSE 304 + k

BridgeFn == [kind |-> "bridge", lo |-> 0, hi |-> 0]
ExtendedFn == [kind |-> "extended", lo |-> 0, hi |-> 0]
WindowFn(lo, hi) == [kind |-> "longest", lo |-> lo, hi |-> hi]
QuarterFn(lo, hi) == [kind |-> "quarter", lo |-> lo, hi |-> hi]

\* faulty variant of value_fn: the extended-weekends reward has no penalty
value_fn_no_penalty(vf, d, s) ==
    CASE vf.kind = "longest" ->
            IF vf.lo <= d /\ d <= vf.hi THEN Milli * (WindowBonus + s) ELSE Milli * s
      [] vf.kind = "quarter" ->
            IF vf.lo <= d /\ d <= vf.hi THEN Milli * s ELSE 0
      [] OTHER -> Milli * s

\* value_fn(d, s) of each strategy, in thousandths
value_fn(vf, d, s) ==
    CASE vf.kind = "bridge" -> Milli * s
      [] vf.kind = "longest" ->
            IF vf.lo <= d /\ d <= vf.hi THEN Milli * (WindowBonus + s) ELSE Milli * s
      [] vf.kind = "extended" ->
            IF s <= ShortBreakLen THEN Milli * s
            ELSE Milli * (s - LongBreakPenalty * (s - ShortBreakLen))
      [] OTHER ->
            IF vf.lo <= d /\ d <= vf.hi THEN Milli * s ELSE 0

\* sw.get(month, 1.0), in halves
WeightOf(m) == IF m \in DOMAIN seasonal_weights THEN seasonal_weights[m] ELSE 2

\* _wrap_value_fn: max-block residual, then the seasonal multiplier
wrapped(vf, d, s) ==
    LET v == IF max_block_days # NoneVal /\ s > max_block_days
             THEN Log1pMilli(s - max_block_days)
             ELSE value_fn(vf, d, s)
    IN v * WeightOf(month_of(d))

\* ------------------------------------------------------- pinned reservation
pinned_set == {d \in Days : is_pinned(d) /\ ~is_natural_off(d)}
pinned_count == Cardinality(pinned_set)
pin_from_float(f_budget) == Min(f_budget, pinned_count)
pin_from_pto(p_budget, f_budget) == Min(p_budget, pinned_count - pin_from_float(f_budget))

\* ------------------------------------------------------------- simple DP
\* the running maximum over the legal transitions: work, then PTO, then floating
best_value(work, vp, vfl, pto_ok, float_ok) ==
    LET best1 == IF pto_ok /\ vp > work THEN vp ELSE work
    IN IF float_ok /\ vfl > best1 THEN vfl ELSE best1

\* faulty variant of best_action: spends as soon as a unit is left
best_action_spend_first(work_val, vp, vfl, pto_ok, float_ok) ==
    IF pto_ok THEN "pto" ELSE IF float_ok THEN "float" ELSE "work"

\* faulty variant of best_action: the floating branch is missing
best_action_pto_only(work_val, vp, vfl, pto_ok, float_ok) ==
    IF pto_ok /\ vp > work_val THEN "pto" ELSE "work"

\* faulty variant of best_action: the floating branch is tried before PTO
best_action_float_first(work_val, vp, vfl, pto_ok, float_ok) ==
    IF float_ok /\ vfl > work_val THEN "float"
    ELSE IF pto_ok /\ vp > work_val THEN "pto" ELSE "work"

\* the action the backward walk re-selects: the last strict improvement
best_action(work_val, vp, vfl, pto_ok, float_ok) ==
    LET takeP == pto_ok /\ vp > work_val
        best1 == IF takeP THEN vp ELSE work_val
    IN IF float_ok /\ vfl > best1 THEN "float"
       ELSE IF takeP THEN "pto" ELSE "work"

RECURSIVE dp(_, _, _, _, _)
dp(vf, day, p_rem, f_rem, streak) ==
    IF day >= num_days THEN 0
    ELSE IF is_natural_off(day) \/ day \in pinned_set THEN
        wrapped(vf, day, streak + 1) + dp(vf, day + 1, p_rem, f_rem, streak + 1)
    ELSE IF is_blackout(day) THEN dp(vf, day + 1, p_rem, f_rem, 0)
    ELSE
        LET incr == wrapped(vf, day, streak + 1)
        IN best_value(dp(vf, day + 1, p_rem, f_rem, 0),
                      incr + dp(vf, day + 1, p_rem - 1, f_rem, streak + 1),
                      incr + dp(vf, day + 1, p_rem, f_rem - 1, streak + 1),
                      p_rem > 0, f_rem > 0)

\* the action the backward walk takes on a contested day
Choice(vf, day, p_rem, f_rem, streak) ==
    LET incr == wrapped(vf, day, streak + 1)
    IN best_action(dp(vf, day + 1, p_rem, f_rem, 0),
                   incr + dp(vf, day + 1, p_rem - 1, f_rem, streak + 1),
                   incr + dp(vf, day + 1, p_rem, f_rem - 1, streak + 1),
                   p_rem > 0, f_rem > 0)

RECURSIVE backtrack(_, _, _, _, _, _, _, _)
\* one iteration of the walk on a contested day, given the action chosen
walk_step(vf, pff, day, p_rem, f_rem, streak, pto_days, float_days, action) ==
    CASE action = "pto" ->
            backtrack(vf, pff, day + 1, p_rem - 1, f_rem, streak + 1,
                      Append(pto_days, day), float_days)
      [] action = "float" ->
            backtrack(vf, pff, day + 1, p_rem, f_rem - 1, streak + 1,
                      pto_days, Append(float_days, day))
      [] OTHER ->
            backtrack(vf, pff, day + 1, p_rem, f_rem, 0, pto_days, float_days)

backtrack(vf, pff, day, p_rem, f_rem, streak, pto_days, float_days) ==
    IF day >= num_days THEN [pto |-> pto_days, flt |-> float_days]
    ELSE IF is_natural_off(day) THEN
        backtrack(vf, pff, day + 1, p_rem, f_rem, streak + 1, pto_days, float_days)
    ELSE IF day \in pinned_set THEN
        IF pff > 0
        THEN backtrack(vf, pff, day + 1, p_rem, f_rem, streak + 1,
                       pto_days, Append(float_days, day))
        ELSE backtrack(vf, pff, day + 1, p_rem, f_rem, streak + 1,
                       Append(pto_days, day), float_days)
    ELSE IF is_blackout(day) THEN
        backtrack(vf, pff, day + 1, p_rem, f_rem, 0, pto_days, float_days)
    ELSE
        walk_step(vf, pff, day, p_rem, f_rem, streak, pto_days, float_days,
                  Choice(vf, day, p_rem, f_rem, streak))

solve_simple(vf, p_budget, f_budget) ==
    backtrack(vf, pin_from_float(f_budget), 0,
              p_budget - pin_from_pto(p_budget, f_budget),
              f_budget - pin_from_float(f_budget), 0, <<>>, <<>>)


\* ------------------------------------------- DP with gap / monthly-cap state
use_gap == min_gap_days > 0
use_cap == monthly_pto_cap # NoneVal
monthly_cap == IF monthly_pto_cap = NoneVal THEN 0 ELSE monthly_pto_cap

\* month_used after the reset at a month boundary
month_reset(day, m_used) ==
    IF use_cap /\ day > 0 /\ month_of(day) # month_of(day - 1) THEN 0 ELSE m_used

can_take(day, streak, gap_cd, m_used) ==
    /\ ~is_blackout(day)
    /\ ~(use_gap /\ gap_cd > 0 /\ streak = 0)
    /\ ~(use_cap /\ m_used >= monthly_cap)

work_gap(streak, gap_cd) ==
    IF streak = 0
    THEN (IF use_gap THEN Max(0, gap_cd - 1) ELSE 0)
    ELSE (IF use_gap THEN min_gap_days ELSE 0)

RECURSIVE dp_ext(_, _, _, _, _, _, _)
\* dp_ext from the month-boundary reset on
dp_ext_day(vf, day, p_rem, f_rem, streak, gap_cd, m_used) ==
    IF is_natural_off(day) \/ day \in pinned_set THEN
        wrapped(vf, day, streak + 1)
          + dp_ext(vf, day + 1, p_rem, f_rem, streak + 1, gap_cd, m_used)
    ELSE
        LET incr == wrapped(vf, day, streak + 1)
            take == can_take(day, streak, gap_cd, m_used)
        IN best_value(dp_ext(vf, day + 1, p_rem, f_rem, 0, work_gap(streak, gap_cd), m_used),
                      incr + dp_ext(vf, day + 1, p_rem - 1, f_rem, streak + 1, 0, m_used + 1),
                      incr + dp_ext(vf, day + 1, p_rem, f_rem - 1, streak + 1, 0, m_used + 1),
                      take /\ p_rem > 0, take /\ f_rem > 0)

dp_ext(vf, day, p_rem, f_rem, streak, gap_cd, m_used) ==
    IF day >= num_days THEN 0
    ELSE dp_ext_day(vf, day, p_rem, f_rem, streak, gap_cd, month_reset(day, m_used))

ChoiceExt(vf, day, p_rem, f_rem, streak, gap_cd, m_used) ==
    LET incr == wrapped(vf, day, streak + 1)
        take == can_take(day, streak, gap_cd, m_used)
    IN best_action(dp_ext(vf, day + 1, p_rem, f_rem, 0, work_gap(streak, gap_cd), m_used),
                   incr + dp_ext(vf, day + 1, p_rem - 1, f_rem, streak + 1, 0, m_used + 1),
                   incr + dp_ext(vf, day + 1, p_rem, f_rem - 1, streak + 1, 0, m_used + 1),
                   take /\ p_rem > 0, take /\ f_rem > 0)

RECURSIVE backtrack_ext(_, _, _, _, _, _, _, _, _, _)
walk_step_ext(vf, pff, day, p_rem, f_rem, streak, gap_cd, m_used, pto_days, float_days, action) ==
    CASE action = "pto" ->
            backtrack_ext(vf, pff, day + 1, p_rem - 1, f_rem, streak + 1, 0,
                          m_used + 1, Append(pto_days, day), float_days)
      [] action = "float" ->
            backtrack_ext(vf, pff, day + 1, p_rem, f_rem - 1, streak + 1, 0,
                          m_used + 1, pto_days, Append(float_days, day))
      [] OTHER ->
            backtrack_ext(vf, pff, day + 1, p_rem, f_rem, 0,
                          work_gap(streak, gap_cd), m_used, pto_days, float_days)

\* one iteration of the extended walk, from the month-boundary reset on
walk_day_ext(vf, pff, day, p_rem, f_rem, streak, gap_cd, m_used, pto_days, float_days) ==
    IF is_natural_off(day) THEN
        backtrack_ext(vf, pff, day + 1, p_rem, f_rem, streak + 1, gap_cd, m_used,
                      pto_days, float_days)
    ELSE IF day \in pinned_set THEN
        IF pff > 0
        THEN backtrack_ext(vf, pff, day + 1, p_rem, f_rem, streak + 1, 0, m_used,
                           pto_days, Append(float_days, day))
        ELSE backtrack_ext(vf, pff, day + 1, p_rem, f_rem, streak + 1, 0, m_used,
                           Append(pto_days, day), float_days)
    ELSE
        walk_step_ext(vf, pff, day, p_rem, f_rem, streak, gap_cd, m_used,
                      pto_days, float_days,
                      ChoiceExt(vf, day, p_rem, f_rem, streak, gap_cd, m_used))

backtrack_ext(vf, pff, day, p_rem, f_rem, streak, gap_cd, m_used, pto_days, float_days) ==
    IF day >= num_days THEN [pto |-> pto_days, flt |-> float_days]
    ELSE walk_day_ext(vf, pff, day, p_rem, f_rem, streak, gap_cd,
                      month_reset(day, m_used), pto_days, float_days)

solve_ext(vf, p_budget, f_budget) ==
    backtrack_ext(vf, pin_from_float(f_budget), 0,
                  p_budget - pin_from_pto(p_budget, f_budget),
                  f_budget - pin_from_float(f_budget), 0, 0, 0, <<>>, <<>>)

\* PTOOptimizer._solve_dp: (pto_day_indices, floating_day_indices)
solve_dp(vf, p_budget, f_budget) ==
    IF use_gap \/ use_cap
    THEN solve_ext(vf, p_budget, f_budget)
    ELSE solve_simple(vf, p_budget, f_budget)

\* ---------------------------------------------------------- block extraction
make_block(start, end, pto_set, float_set) ==
    [start_date |-> start,
     end_date |-> end,
     total_days |-> end - start + 1,
     pto_days |-> Cardinality({d \in start .. end : d \in pto_set \/ d \in float_set}),
     holidays |-> Cardinality({d \in start .. end : is_holiday(d)}),
     weekend_days |-> Cardinality({d \in start .. end : is_weekend(d)})]

\* faulty variant of KeepBlock: runs without a spent day are kept too
KeepBlockAny(blocks, blk) == Append(blocks, blk)

KeepBlock(blocks, blk) == IF blk.pto_days > 0 THEN Append(blocks, blk) ELSE blocks

RECURSIVE scan_blocks(_, _, _, _, _, _, _)
scan_blocks(sorted_off, i, start, prev, blocks, pto_set, float_set) ==
    IF i > Len(sorted_off)
    THEN KeepBlock(blocks, make_block(start, prev, pto_set, float_set))
    ELSE IF sorted_off[i] = prev + 1
    THEN scan_blocks(sorted_off, i + 1, start, sorted_off[i], blocks, pto_set, float_set)
    ELSE scan_blocks(sorted_off, i + 1, sorted_off[i], sorted_off[i],
                     KeepBlock(blocks, make_block(start, prev, pto_set, float_set)),
                     pto_set, float_set)

extract_blocks(off_set, pto_set, float_set) ==
    IF off_set = {} THEN <<>>
    ELSE LET sorted_off == SortedSeq(off_set)
         IN scan_blocks(sorted_off, 2, sorted_off[1], sorted_off[1], <<>>,
                        pto_set, float_set)

\* faulty variant of make_plan: the naturally-off days are left out of off_set
make_plan_spent_only(name, pto_idx, float_idx) ==
    [name |-> name,
     blocks |-> extract_blocks(SeqSet(pto_idx) \cup SeqSet(float_idx),
                               SeqSet(pto_idx), SeqSet(float_idx)),
     pto_dates |-> pto_idx,
     floating_dates |-> float_idx]

make_plan(name, pto_idx, float_idx) ==
    LET off_set == {d \in Days :
                       is_natural_off(d) \/ d \in SeqSet(pto_idx) \/ d \in SeqSet(float_idx)}
    IN [name |-> name,
        blocks |-> extract_blocks(off_set, SeqSet(pto_idx), SeqSet(float_idx)),
        pto_dates |-> pto_idx,
        floating_dates |-> float_idx]


\* ---------------------------------------------------------------- strategies
optimize_max_bridges ==
    LET r == solve_dp(BridgeFn, pto_budget, floating_holidays)
    IN make_plan("Bridge Optimizer", r.pto, r.flt)

\* the inner while loop of the window scan: drop days on the left

\* faulty variant of shrink: the loop stops one working day too early
RECURSIVE shrink_late(_, _, _)
shrink_late(left, workdays, total_budget) ==
    IF workdays > total_budget + 1
    THEN IF left >= num_days
         THEN [left |-> left, workdays |-> workdays, raised |-> TRUE]
         ELSE shrink_late(left + 1,
                          IF ~is_natural_off(left) THEN workdays - 1 ELSE workdays,
                          total_budget)
    ELSE [left |-> left, workdays |-> workdays, raised |-> FALSE]

\* raised: is_natural_off[left] was read past the end of the list (IndexError)
RECURSIVE shrink(_, _, _)
shrink(left, workdays, total_budget) ==
    IF workdays > total_budget
    THEN IF left >= num_days
         THEN [left |-> left, workdays |-> workdays, raised |-> TRUE]
         ELSE shrink(left + 1,
                     IF ~is_natural_off(left) THEN workdays - 1 ELSE workdays,
                     total_budget)
    ELSE [left |-> left, workdays |-> workdays, raised |-> FALSE]

RECURSIVE scan_window(_, _, _, _, _, _, _)
scan_window(right, left, workdays, best_len, best_start, best_end, total_budget) ==
    IF right >= num_days THEN [best_start |-> best_start, best_end |-> best_end,
                               best_len |-> best_len, raised |-> FALSE]
    ELSE
        LET w == shrink(left,
                        IF ~is_natural_off(right) THEN workdays + 1 ELSE workdays,
                        total_budget)
        IN IF w.raised
           THEN [best_start |-> best_start, best_end |-> best_end,
                 best_len |-> best_len, raised |-> TRUE]
           ELSE IF right - w.left + 1 > best_len
           THEN scan_window(right + 1, w.left, w.workdays,
                            right - w.left + 1, w.left, right, total_budget)
           ELSE scan_window(right + 1, w.left, w.workdays,
                            best_len, best_start, best_end, total_budget)

best_window == scan_window(0, 0, 0, 0, 0, 0, pto_budget + floating_holidays)

optimize_longest_vacation ==
    LET w == best_window
        r == solve_dp(WindowFn(w.best_start, w.best_end), pto_budget, floating_holidays)
    IN make_plan("Longest Single Vacation", r.pto, r.flt)

optimize_extended_weekends ==
    LET r == solve_dp(ExtendedFn, pto_budget, floating_holidays)
    IN make_plan("Extended Weekends", r.pto, r.flt)

\* holidays of the set that fall in quarter qi (1..4)
quarter_holiday_counts(qi) ==
    Cardinality({h \in holidays : quarter_bounds[qi][1] <= h /\ h <= quarter_bounds[qi][2]})

\* faulty variant of rank_of: the quarters with the fewest holidays come first
rank_of_fewest_first(qi) ==
    Cardinality({qj \in 1 .. 4 :
        \/ quarter_holiday_counts(qj) < quarter_holiday_counts(qi)
        \/ (quarter_holiday_counts(qj) = quarter_holiday_counts(qi) /\ qj < qi)})

\* position of quarter qi in sorted(range(4), key=-count): a stable sort
rank_of(qi) ==
    Cardinality({qj \in 1 .. 4 :
        \/ quarter_holiday_counts(qj) > quarter_holiday_counts(qi)
        \/ (quarter_holiday_counts(qj) = quarter_holiday_counts(qi) /\ qj < qi)})

\* budgets[qi]
quarter_budget(qi) ==
    LET total_budget == pto_budget + floating_holidays
    IN (total_budget \div 4) + (IF rank_of(qi) < total_budget % 4 THEN 1 ELSE 0)

\* the loop over the quarters; all_pto and all_float accumulate
RECURSIVE quarter_loop(_, _, _)
quarter_loop(qi, all_pto, all_float) ==
    IF qi > 4 THEN [pto |-> all_pto, flt |-> all_float]
    ELSE
        LET q_budget == quarter_budget(qi)
            float_for_q0 == Min(floating_holidays - Len(all_float), q_budget)
            pto_for_q == q_budget - Max(0, float_for_q0)
            float_for_q == Max(0, float_for_q0)
            r == solve_dp(QuarterFn(quarter_bounds[qi][1], quarter_bounds[qi][2]),
                          pto_for_q, float_for_q)
        IN IF q_budget = 0 THEN quarter_loop(qi + 1, all_pto, all_float)
           ELSE quarter_loop(qi + 1, all_pto \o r.pto, all_float \o r.flt)

optimize_quarterly ==
    LET r == quarter_loop(1, <<>>, <<>>)
    IN make_plan("Quarterly Balance", SortInts(r.pto), SortInts(r.flt))


\* ===================================================== MultiGroupOptimizer
num_groups == Len(groups)
Groups == 1 .. num_groups

group_is_holiday(g, d) == d \in groups[g].holidays
group_is_natural_off(g, d) == is_weekend(d) \/ group_is_holiday(g, d)
group_budgets == [g \in Groups |-> groups[g].pto_budget + groups[g].floating_holidays]

\* True when every group is naturally off
all_natural_off(d) == \A g \in Groups : group_is_natural_off(g, d)

\* faulty variant of can_afford: one group that can pay is enough
can_afford_any(budgets, day) ==
    \E g \in Groups : group_is_natural_off(g, day) \/ budgets[g] > 0

\* the cost loop: every group that is not naturally off must hold a unit ...
can_afford(budgets, day) ==
    \A g \in Groups : group_is_natural_off(g, day) \/ budgets[g] > 0

\* ... and spends it
new_b(budgets, day) ==
    [g \in Groups |-> IF group_is_natural_off(g, day) THEN budgets[g] ELSE budgets[g] - 1]

RECURSIVE mg_dp(_, _, _, _)
mg_dp(vf, day, budgets, streak) ==
    IF day >= num_days THEN 0
    ELSE IF all_natural_off(day) THEN
        value_fn(vf, day, streak + 1) + mg_dp(vf, day + 1, budgets, streak + 1)
    ELSE
        LET best == mg_dp(vf, day + 1, budgets, 0)
            v == value_fn(vf, day, streak + 1)
                   + mg_dp(vf, day + 1, new_b(budgets, day), streak + 1)
        IN IF can_afford(budgets, day) /\ v > best THEN v ELSE best

\* faulty variant of mg_choice: a tie between working and spending is spent
mg_choice_spend_on_tie(vf, day, budgets_live, streak) ==
    LET work_val == mg_dp(vf, day + 1, budgets_live, 0)
        v == value_fn(vf, day, streak + 1)
               + mg_dp(vf, day + 1, new_b(budgets_live, day), streak + 1)
    IN IF can_afford(budgets_live, day) /\ v >= work_val THEN "off" ELSE "work"

mg_choice(vf, day, budgets_live, streak) ==
    LET work_val == mg_dp(vf, day + 1, budgets_live, 0)
        v == value_fn(vf, day, streak + 1)
               + mg_dp(vf, day + 1, new_b(budgets_live, day), streak + 1)
    IN IF can_afford(budgets_live, day) /\ v > work_val THEN "off" ELSE "work"

\* faulty variant of spend_day: only the first group records the day
spend_day_first_group(per_group, day) ==
    [g \in Groups |-> IF g = 1 /\ ~group_is_natural_off(g, day)
                      THEN Append(per_group[g], day)
                      ELSE per_group[g]]

\* faulty variant of spend_day: every group records the day
spend_day_every_group(per_group, day) ==
    [g \in Groups |-> Append(per_group[g], day)]

\* the day is recorded for every group that is not naturally off
spend_day(per_group, day) ==
    [g \in Groups |-> IF group_is_natural_off(g, day)
                      THEN per_group[g]
                      ELSE Append(per_group[g], day)]

RECURSIVE mg_backtrack(_, _, _, _, _)
mg_backtrack(vf, day, budgets_live, streak, per_group) ==
    IF day >= num_days THEN per_group
    ELSE IF all_natural_off(day) THEN
        mg_backtrack(vf, day + 1, budgets_live, streak + 1, per_group)
    ELSE IF mg_choice(vf, day, budgets_live, streak) = "off" THEN
        mg_backtrack(vf, day + 1, new_b(budgets_live, day), streak + 1,
                     spend_day(per_group, day))
    ELSE mg_backtrack(vf, day + 1, budgets_live, 0, per_group)

\* MultiGroupOptimizer._solve_dp: per-group lists of spent day indices
mg_solve_dp(vf, budgets_init) ==
    mg_backtrack(vf, 0, budgets_init, 0, [g \in Groups |-> <<>>])

\* the union of every group's spent days
all_pto_set(per_group_pto) == UNION {SeqSet(per_group_pto[g]) : g \in Groups}

\* the days that are off for everyone, as _make_plan collects them
shared_off_set(per_group_pto) ==
    {d \in Days : all_natural_off(d)} \cup all_pto_set(per_group_pto)

\* faulty variant of mg_make_block: a shared holiday on a weekend day is counted
\* as a holiday too
mg_make_block_weekend_holidays(start, end, pto_set) ==
    [start_date |-> start,
     end_date |-> end,
     total_days |-> end - start + 1,
     pto_days |-> Cardinality({d \in start .. end : d \in pto_set}),
     holidays |-> Cardinality({d \in start .. end :
                                  \A g \in Groups : group_is_holiday(g, d)}),
     weekend_days |-> Cardinality({d \in start .. end : is_weekend(d)})]

\* faulty variant of mg_make_block: total_days leaves out the last day
mg_make_block_exclusive(start, end, pto_set) ==
    [start_date |-> start,
     end_date |-> end,
     total_days |-> end - start,
     pto_days |-> Cardinality({d \in start .. end : d \in pto_set}),
     holidays |-> Cardinality({d \in start .. end :
                                  ~is_weekend(d) /\ \A g \in Groups : group_is_holiday(g, d)}),
     weekend_days |-> Cardinality({d \in start .. end : is_weekend(d)})]

mg_make_block(start, end, pto_set) ==
    [start_date |-> start,
     end_date |-> end,
     total_days |-> end - start + 1,
     pto_days |-> Cardinality({d \in start .. end : d \in pto_set}),
     holidays |-> Cardinality({d \in start .. end :
                                  ~is_weekend(d) /\ \A g \in Groups : group_is_holiday(g, d)}),
     weekend_days |-> Cardinality({d \in start .. end : is_weekend(d)})]

RECURSIVE mg_scan_blocks(_, _, _, _, _, _)
mg_scan_blocks(sorted_off, i, start, prev, blocks, pto_set) ==
    IF i > Len(sorted_off)
    THEN KeepBlock(blocks, mg_make_block(start, prev, pto_set))
    ELSE IF sorted_off[i] = prev + 1
    THEN mg_scan_blocks(sorted_off, i + 1, start, sorted_off[i], blocks, pto_set)
    ELSE mg_scan_blocks(sorted_off, i + 1, sorted_off[i], sorted_off[i],
                        KeepBlock(blocks, mg_make_block(start, prev, pto_set)), pto_set)

mg_extract_blocks(off_set, pto_set) ==
    IF off_set = {} THEN <<>>
    ELSE LET sorted_off == SortedSeq(off_set)
         IN mg_scan_blocks(sorted_off, 2, sorted_off[1], sorted_off[1], <<>>, pto_set)

\* the cut point of the slices seq[:n] and seq[n:]; a negative n counts from
\* the end of the list
SliceAt(seq, n) == IF n >= 0 THEN Min(n, Len(seq)) ELSE Max(Len(seq) + n, 0)
\* indices[:n] and indices[n:]
Take(seq, n) == SubSeq(seq, 1, SliceAt(seq, n))
Drop(seq, n) == SubSeq(seq, SliceAt(seq, n) + 1, Len(seq))

mg_make_plan(name, per_group_pto) ==
    [name |-> name,
     blocks |-> mg_extract_blocks(shared_off_set(per_group_pto), all_pto_set(per_group_pto)),
     group_allocations |->
        [g \in Groups |->
            [pto_dates |-> Drop(per_group_pto[g], groups[g].floating_holidays),
             floating_dates |-> Take(per_group_pto[g], groups[g].floating_holidays)]]]

mg_optimize_max_bridges ==
    mg_make_plan("Bridge Optimizer (Multi-Group)", mg_solve_dp(BridgeFn, group_budgets))

\* the shrink loop of the multi-group window scan; g_work counts, per group,
\* the days of the window that are not naturally off for it
RECURSIVE mg_shrink(_, _)
mg_shrink(left, g_work) ==
    IF \E g \in Groups : g_work[g] > group_budgets[g]
    THEN IF left >= num_days
         THEN [left |-> left, g_work |-> g_work, raised |-> TRUE]
         ELSE mg_shrink(left + 1,
                        [g \in Groups |-> IF ~group_is_natural_off(g, left)
                                          THEN g_work[g] - 1 ELSE g_work[g]])
    ELSE [left |-> left, g_work |-> g_work, raised |-> FALSE]

RECURSIVE mg_scan_window(_, _, _, _, _, _)
mg_scan_window(right, left, g_work, best_len, best_start, best_end) ==
    IF right >= num_days THEN [best_start |-> best_start, best_end |-> best_end,
                               best_len |-> best_len, raised |-> FALSE]
    ELSE
        LET w == mg_shrink(left,
                           [g \in Groups |-> IF ~group_is_natural_off(g, right)
                                             THEN g_work[g] + 1 ELSE g_work[g]])
        IN IF w.raised
           THEN [best_start |-> best_start, best_end |-> best_end,
                 best_len |-> best_len, raised |-> TRUE]
           ELSE IF right - w.left + 1 > best_len
           THEN mg_scan_window(right + 1, w.left, w.g_work,
                               right - w.left + 1, w.left, right)
           ELSE mg_scan_window(right + 1, w.left, w.g_work,
                               best_len, best_start, best_end)

mg_best_window == mg_scan_window(0, 0, [g \in Groups |-> 0], 0, 0, 0)

mg_optimize_longest_vacation ==
    LET w == mg_best_window
    IN mg_make_plan("Longest Shared Vacation",
                    mg_solve_dp(WindowFn(w.best_start, w.best_end), group_budgets))

mg_optimize_extended_weekends ==
    mg_make_plan("Extended Weekends (Multi-Group)", mg_solve_dp(ExtendedFn, group_budgets))

\* q_hol of group g for quarter qi, and the stable rank of the quarter
mg_q_hol(g, qi) ==
    Cardinality({h \in groups[g].holidays :
                    quarter_bounds[qi][1] <= h /\ h <= quarter_bounds[qi][2]})

mg_rank_of(g, qi) ==
    Cardinality({qj \in 1 .. 4 :
        \/ mg_q_hol(g, qj) > mg_q_hol(g, qi)
        \/ (mg_q_hol(g, qj) = mg_q_hol(g, qi) /\ qj < qi)})

\* quarter_budgets[qi][g]
quarter_budgets(qi) ==
    [g \in Groups |->
        (group_budgets[g] \div 4)
          + (IF mg_rank_of(g, qi) < group_budgets[g] % 4 THEN 1 ELSE 0)]

RECURSIVE mg_quarter_loop(_, _)
mg_quarter_loop(qi, all_per_group) ==
    IF qi > 4 THEN all_per_group
    ELSE
        LET budgets_for_q == quarter_budgets(qi)
            per_group == mg_solve_dp(QuarterFn(quarter_bounds[qi][1], quarter_bounds[qi][2]),
                                     budgets_for_q)
        IN IF \A g \in Groups : budgets_for_q[g] = 0
           THEN mg_quarter_loop(qi + 1, all_per_group)
           ELSE mg_quarter_loop(qi + 1,
                                [g \in Groups |-> all_per_group[g] \o per_group[g]])

mg_optimize_quarterly ==
    LET r == mg_quarter_loop(1, [g \in Groups |-> <<>>])
    IN mg_make_plan("Quarterly Balance (Multi-Group)", [g \in Groups |-> SortInts(r[g])])


\* ============================================================ the optimizers
NoPlan == [name |-> "none", blocks |-> <<>>, pto_dates |-> <<>>, floating_dates |-> <<>>]
NoMPlan == [name |-> "none", blocks |-> <<>>, group_allocations |-> <<>>]

\* generate_all_plans: the strategies in the order of the list
strategies == <<"optimize_max_bridges", "optimize_longest_vacation",
                "optimize_extended_weekends", "optimize_quarterly">>

\* whether the strategy method raises; only the window scan can (IndexError)
strategy_raises(name) ==
    IF name = "optimize_longest_vacation" THEN best_window.raised ELSE FALSE

\* the Plan the strategy method returns when it does not raise
strategy_plan(name) ==
    CASE name = "optimize_max_bridges" -> optimize_max_bridges
      [] name = "optimize_longest_vacation" -> optimize_longest_vacation
      [] name = "optimize_extended_weekends" -> optimize_extended_weekends
      [] OTHER -> optimize_quarterly

\* faulty variant of run_strategies: the first exception ends the batch
RECURSIVE run_strategies_abort(_, _)
run_strategies_abort(i, out) ==
    IF i > Len(strategies) THEN out
    ELSE IF strategy_raises(strategies[i]) THEN out
    ELSE run_strategies_abort(i + 1, Append(out, strategy_plan(strategies[i])))

\* the try/except loop of generate_all_plans
RECURSIVE run_strategies(_, _)
run_strategies(i, out) ==
    IF i > Len(strategies) THEN out
    ELSE IF strategy_raises(strategies[i]) THEN run_strategies(i + 1, out)
    ELSE run_strategies(i + 1, Append(out, strategy_plan(strategies[i])))

generate_all_plans == run_strategies(1, <<>>)

mg_strategy_raises(name) ==
    IF name = "optimize_longest_vacation" THEN mg_best_window.raised ELSE FALSE

mg_strategy_plan(name) ==
    CASE name = "optimize_max_bridges" -> mg_optimize_max_bridges
      [] name = "optimize_longest_vacation" -> mg_optimize_longest_vacation
      [] name = "optimize_extended_weekends" -> mg_optimize_extended_weekends
      [] OTHER -> mg_optimize_quarterly

RECURSIVE mg_run_strategies(_, _)
mg_run_strategies(i, out) ==
    IF i > Len(strategies) THEN out
    ELSE IF mg_strategy_raises(strategies[i]) THEN mg_run_strategies(i + 1, out)
    ELSE mg_run_strategies(i + 1, Append(out, mg_strategy_plan(strategies[i])))

mg_generate_all_plans == mg_run_strategies(1, <<>>)

\* faulty variant of mg_init_error: the empty list of groups is accepted
mg_init_accepts(gs) == "none"

\* what PTOOptimizer.__init__ raises for the given budgets: it has no check
pto_init_error(p_budget, f_budget) == "none"

\* what MultiGroupOptimizer.__init__ raises for the given groups
mg_init_error(gs) == IF gs = <<>> THEN "ValueError" ELSE "none"

HolidaySets == {H \in SUBSET Days : Cardinality(H) <= MaxHolidays}

\* the inputs the policy and multi-group runs draw from
SomeWeekdays == {0, 2, 5}
PinDays == {1, 6}
BlackoutDays == {3, 6}
SomeHolidays == {1, 4}
GapChoices == {0, 2}
CapChoices == {NoneVal, 1}
MaxBlockChoices == {NoneVal, 2}
WeightChoices == {<<>>, <<2, 3>>}

NoPolicy ==
    /\ pinned_dates = {}
    /\ blackout_dates = {}
    /\ max_block_days = NoneVal
    /\ min_gap_days = 0
    /\ monthly_pto_cap = NoneVal
    /\ seasonal_weights = <<>>

\* nothing was called yet
\* no call is being followed
NoRun == [pc |-> "none"]

Fresh ==
    /\ strategy = "none"
    /\ plan = NoPlan
    /\ mplan = NoMPlan
    /\ plans = <<>>
    /\ history = <<>>
    /\ run = NoRun

\* PTOOptimizer(year, pto_budget, holidays, floating_holidays)
Init ==
    /\ year_days = NumDays
    /\ engine = "PTOOptimizer"
    /\ start_weekday \in 0 .. 6
    /\ holidays \in HolidaySets
    /\ pto_budget \in 0 .. MaxPto
    /\ floating_holidays \in 0 .. MaxFloat
    /\ NoPolicy
    /\ groups = <<>>
    /\ error = "none"
    /\ Fresh

\* PTOOptimizer(..., pinned_dates=, blackout_dates=, max_block_days=,
\*              min_gap_days=, monthly_pto_cap=, seasonal_weights=)
InitPolicy ==
    /\ year_days = NumDays
    /\ engine = "PTOOptimizer"
    /\ start_weekday \in SomeWeekdays
    /\ holidays \in {H \in SUBSET SomeHolidays : Cardinality(H) <= MaxHolidays}
    /\ pto_budget \in 0 .. MaxPto
    /\ floating_holidays \in 0 .. MaxFloat
    /\ pinned_dates \in SUBSET PinDays
    /\ blackout_dates \in {S \in SUBSET BlackoutDays : Cardinality(S) <= 1}
    /\ max_block_days \in MaxBlockChoices
    /\ min_gap_days \in GapChoices
    /\ monthly_pto_cap \in CapChoices
    /\ seasonal_weights \in WeightChoices
    /\ groups = <<>>
    /\ error = "none"
    /\ Fresh

HolidayGroups ==
    [holidays : {H \in SUBSET SomeHolidays : Cardinality(H) <= MaxHolidays},
     pto_budget : 0 .. MaxPto,
     floating_holidays : 0 .. MaxFloat]

\* MultiGroupOptimizer(year, groups)
InitMulti ==
    /\ year_days = NumDays
    /\ engine = "MultiGroupOptimizer"
    /\ start_weekday \in SomeWeekdays
    /\ groups \in {<<g>> : g \in HolidayGroups}
                    \cup {<<g, h>> : g \in HolidayGroups, h \in HolidayGroups}
    /\ holidays = {}
    /\ pto_budget = 0
    /\ floating_holidays = 0
    /\ NoPolicy
    /\ error = "none"
    /\ Fresh

\* a single-party optimizer that is called repeatedly
InitRepeat ==
    /\ year_days = NumDays
    /\ engine = "PTOOptimizer"
    /\ start_weekday \in SomeWeekdays
    /\ holidays \in {H \in SUBSET SomeHolidays : Cardinality(H) <= MaxHolidays}
    /\ pto_budget \in 0 .. MaxPto
    /\ floating_holidays \in 0 .. MaxFloat
    /\ NoPolicy
    /\ groups = <<>>
    /\ error = "none"
    /\ Fresh

\* arguments the constructors are handed without any check by the caller:
\* budgets may be negative and the list of groups may be empty
AnyBudget == {0 - 1, 0, MaxFloat}
AnyGroups ==
    [holidays : {H \in SUBSET SomeHolidays : Cardinality(H) <= MaxHolidays},
     pto_budget : AnyBudget,
     floating_holidays : AnyBudget]

\* PTOOptimizer(year, pto_budget, holidays, floating_holidays) on any integers;
\* engine is "none" when the constructor raised and no object exists
InitAnyPTO ==
    /\ year_days = NumDays
    /\ start_weekday \in SomeWeekdays
    /\ holidays \in {H \in SUBSET SomeHolidays : Cardinality(H) <= MaxHolidays}
    /\ pto_budget \in AnyBudget
    /\ floating_holidays \in AnyBudget
    /\ NoPolicy
    /\ groups = <<>>
    /\ error = pto_init_error(pto_budget, floating_holidays)
    /\ engine = IF error = "none" THEN "PTOOptimizer" ELSE "none"
    /\ Fresh

\* MultiGroupOptimizer(year, groups) on any list of groups
InitAnyMulti ==
    /\ year_days = NumDays
    /\ start_weekday \in SomeWeekdays
    /\ groups \in {<<>>} \cup {<<g>> : g \in AnyGroups}
                    \cup {<<g, h>> : g \in AnyGroups, h \in HolidayGroups}
    /\ holidays = {}
    /\ pto_budget = 0
    /\ floating_holidays = 0
    /\ NoPolicy
    /\ error = mg_init_error(groups)
    /\ engine = IF error = "none" THEN "MultiGroupOptimizer" ELSE "none"
    /\ Fresh

\* PTOOptimizer(...) with every working day of the year blacked out (the list
\* of blackout dates may name days that are off anyway), a budget to spend and
\* no pinned date
InitBlackout ==
    /\ year_days = NumDays
    /\ engine = "PTOOptimizer"
    /\ start_weekday \in SomeWeekdays
    /\ holidays \in {H \in SUBSET SomeHolidays : Cardinality(H) <= MaxHolidays}
    /\ pto_budget \in 0 .. MaxPto
    /\ floating_holidays \in 0 .. MaxFloat
    /\ pto_budget + floating_holidays > 0
    /\ pinned_dates = {}
    /\ blackout_dates \in {Days, {d \in Days : ~is_natural_off(d)}}
    /\ max_block_days \in MaxBlockChoices
    /\ min_gap_days \in GapChoices
    /\ monthly_pto_cap \in CapChoices
    /\ seasonal_weights \in WeightChoices
    /\ groups = <<>>
    /\ error = "none"
    /\ Fresh

\* the inputs of the quarterly partition: budgets of more than four days and
\* holidays spread unevenly over the quarters
PartitionHolidays == SUBSET {1, 4, 5, 7}
PartitionGroups ==
    [holidays : {{}, {4}, {4, 5}, {1, 7}},
     pto_budget : 0 .. MaxQuarterTotal,
     floating_holidays : {0}]
PartitionSecondGroups ==
    [holidays : {{1}, {7}}, pto_budget : {1, MaxQuarterTotal - 1}, floating_holidays : {0}]

InitPartitionPTO ==
    /\ year_days = NumDays
    /\ engine = "PTOOptimizer"
    /\ start_weekday \in SomeWeekdays
    /\ holidays \in PartitionHolidays
    /\ pto_budget \in 0 .. MaxQuarterTotal
    /\ floating_holidays \in 0 .. MaxFloat
    /\ NoPolicy
    /\ groups = <<>>
    /\ error = "none"
    /\ Fresh

InitPartitionMulti ==
    /\ year_days = NumDays
    /\ engine = "MultiGroupOptimizer"
    /\ start_weekday \in SomeWeekdays
    /\ groups \in {<<g>> : g \in PartitionGroups}
                    \cup {<<g, h>> : g \in PartitionGroups, h \in PartitionSecondGroups}
    /\ holidays = {}
    /\ pto_budget = 0
    /\ floating_holidays = 0
    /\ NoPolicy
    /\ error = "none"
    /\ Fresh

\* groups whose holidays overlap in part and fall on weekend days for some
\* start weekdays
SharedHolidayGroups ==
    [holidays : {{1}, {1, 2}, {1, 4}, {4}},
     pto_budget : 0 .. MaxPto,
     floating_holidays : 0 .. MaxFloat]

InitSharedHolidays ==
    /\ year_days = NumDays
    /\ engine = "MultiGroupOptimizer"
    /\ start_weekday \in SomeWeekdays
    /\ groups \in {<<g>> : g \in SharedHolidayGroups}
                    \cup {<<g, h>> : g \in SharedHolidayGroups, h \in SharedHolidayGroups}
    /\ holidays = {}
    /\ pto_budget = 0
    /\ floating_holidays = 0
    /\ NoPolicy
    /\ error = "none"
    /\ Fresh

\* a PTOOptimizer(year, P, H, floating_holidays=F) and a MultiGroupOptimizer
\* over the single group HolidayGroup(name, H, P, F), built from the same inputs
InitTwin ==
    /\ year_days = NumDays
    /\ engine = "MultiGroupOptimizer"
    /\ start_weekday \in 0 .. 6
    /\ holidays \in SUBSET {1, 2, 4, 6}
    /\ pto_budget \in 0 .. MaxPto + 1
    /\ floating_holidays \in 0 .. MaxFloat
    /\ groups = <<[holidays |-> holidays, pto_budget |-> pto_budget,
                   floating_holidays |-> floating_holidays]>>
    /\ NoPolicy
    /\ error = "none"
    /\ Fresh

\* a year long enough for a run of days off to earn more than WindowBonus:
\* it starts on a Wednesday and every Monday to Friday up to day 140 is a
\* holiday, but for the days 1, 70, 71 and 106
LongYearHolidays == {d \in 0 .. 140 : (2 + d) % 7 < Saturday} \ {1, 70, 71, 106}

\* PTOOptimizer(year, pto_budget, holidays) on the long year
InitLongYear ==
    /\ year_days = LongYearDays
    /\ engine = "PTOOptimizer"
    /\ start_weekday = 2
    /\ holidays \in {{}, LongYearHolidays}
    /\ pto_budget \in 0 .. 1
    /\ floating_holidays = 0
    /\ NoPolicy
    /\ groups = <<>>
    /\ error = "none"
    /\ Fresh

config == <<start_weekday, holidays, pto_budget, floating_holidays, pinned_dates,
            blackout_dates, max_block_days, min_gap_days, monthly_pto_cap,
            seasonal_weights, engine, groups, year_days>>

\* faulty variant of Call: the call consumes the configured PTO budget
CallConsuming(name) ==
    /\ strategy' = name
    /\ pto_budget' = 0
    /\ UNCHANGED <<start_weekday, holidays, floating_holidays, pinned_dates,
                   blackout_dates, max_block_days, min_gap_days, monthly_pto_cap,
                   seasonal_weights, engine, groups, year_days, run>>

\* a strategy method runs: no attribute of the optimizer is assigned
Call(name) ==
    /\ strategy' = name
    /\ UNCHANGED <<config, run>>

\* the first call on a fresh optimizer
FirstCall(name) ==
    /\ strategy = "none"
    /\ Call(name)
    /\ UNCHANGED <<plans, history>>

OptimizeMaxBridges ==
    /\ engine = "PTOOptimizer"
    /\ FirstCall("optimize_max_bridges")
    /\ plan' = optimize_max_bridges
    /\ UNCHANGED <<mplan, error>>

OptimizeLongestVacation ==
    /\ engine = "PTOOptimizer"
    /\ FirstCall("optimize_longest_vacation")
    /\ IF best_window.raised
       THEN error' = "IndexError" /\ UNCHANGED plan
       ELSE plan' = optimize_longest_vacation /\ UNCHANGED error
    /\ UNCHANGED mplan

OptimizeExtendedWeekends ==
    /\ engine = "PTOOptimizer"
    /\ FirstCall("optimize_extended_weekends")
    /\ plan' = optimize_extended_weekends
    /\ UNCHANGED <<mplan, error>>

OptimizeQuarterly ==
    /\ engine = "PTOOptimizer"
    /\ FirstCall("optimize_quarterly")
    /\ plan' = optimize_quarterly
    /\ UNCHANGED <<mplan, error>>

\* PTOOptimizer.generate_all_plans on a fresh optimizer
GenerateAllPlans ==
    /\ engine = "PTOOptimizer"
    /\ strategy = "none"
    /\ Call("generate_all_plans")
    /\ plans' = generate_all_plans
    /\ UNCHANGED <<plan, mplan, error, history>>

MultiMaxBridges ==
    /\ engine = "MultiGroupOptimizer"
    /\ FirstCall("optimize_max_bridges")
    /\ mplan' = mg_optimize_max_bridges
    /\ UNCHANGED <<plan, error>>

MultiLongestVacation ==
    /\ engine = "MultiGroupOptimizer"
    /\ FirstCall("optimize_longest_vacation")
    /\ IF mg_best_window.raised
       THEN error' = "IndexError" /\ UNCHANGED mplan
       ELSE mplan' = mg_optimize_longest_vacation /\ UNCHANGED error
    /\ UNCHANGED plan

MultiExtendedWeekends ==
    /\ engine = "MultiGroupOptimizer"
    /\ FirstCall("optimize_extended_weekends")
    /\ mplan' = mg_optimize_extended_weekends
    /\ UNCHANGED <<plan, error>>

MultiQuarterly ==
    /\ engine = "MultiGroupOptimizer"
    /\ FirstCall("optimize_quarterly")
    /\ mplan' = mg_optimize_quarterly
    /\ UNCHANGED <<plan, error>>

\* MultiGroupOptimizer.generate_all_plans on a fresh optimizer
MultiGenerateAllPlans ==
    /\ engine = "MultiGroupOptimizer"
    /\ strategy = "none"
    /\ Call("generate_all_plans")
    /\ plans' = mg_generate_all_plans
    /\ UNCHANGED <<plan, mplan, error, history>>

\* one more call of a strategy method on the same optimizer; the result is
\* appended to the history of results
Invoke(name) ==
    /\ engine = "PTOOptimizer"
    /\ Len(history) < MaxCalls
    /\ Call(name)
    /\ IF strategy_raises(name)
       THEN error' = "IndexError" /\ UNCHANGED <<plan, history>>
       ELSE /\ plan' = strategy_plan(name)
            /\ history' = Append(history, [strategy |-> name,
                                           plan |-> strategy_plan(name)])
            /\ UNCHANGED error
    /\ UNCHANGED <<mplan, plans>>

InvokeMaxBridges == Invoke("optimize_max_bridges")
InvokeLongestVacation == Invoke("optimize_longest_vacation")
InvokeExtendedWeekends == Invoke("optimize_extended_weekends")
InvokeQuarterly == Invoke("optimize_quarterly")

\* optimize_max_bridges of the single-party twin
TwinMaxBridges ==
    /\ plan = NoPlan
    /\ Call("optimize_max_bridges")
    /\ plan' = optimize_max_bridges
    /\ UNCHANGED <<mplan, error, plans, history>>

\* optimize_max_bridges of the one-group multi-party twin
TwinMultiMaxBridges ==
    /\ mplan = NoMPlan
    /\ Call("optimize_max_bridges")
    /\ mplan' = mg_optimize_max_bridges
    /\ UNCHANGED <<plan, error, plans, history>>

\* ----------- optimize_longest_vacation, followed statement by statement
\* dp(day, p_rem, f_rem, streak), given the cached values of day + 1
dp_cell(vf, day, p_rem, f_rem, streak, next) ==
    IF is_natural_off(day) \/ day \in pinned_set THEN
        wrapped(vf, day, streak + 1) + next[<<p_rem, f_rem, streak + 1>>]
    ELSE IF is_blackout(day) THEN next[<<p_rem, f_rem, 0>>]
    ELSE best_value(next[<<p_rem, f_rem, 0>>],
                    IF p_rem > 0
                    THEN wrapped(vf, day, streak + 1) + next[<<p_rem - 1, f_rem, streak + 1>>]
                    ELSE 0,
                    IF f_rem > 0
                    THEN wrapped(vf, day, streak + 1) + next[<<p_rem, f_rem - 1, streak + 1>>]
                    ELSE 0,
                    p_rem > 0, f_rem > 0)

\* the cache of dp for one day, over the arguments (p_rem, f_rem, streak) dp
\* can be called with on that day
dp_row(vf, day, next) ==
    [k \in (0 .. pto_budget) \X (0 .. floating_holidays) \X (0 .. day) |->
        dp_cell(vf, day, k[1], k[2], k[3], next)]

\* the action of the backward walk on a contested day, from the cache
cached_choice(vf, day, p_rem, f_rem, streak, next) ==
    best_action(next[<<p_rem, f_rem, 0>>],
                IF p_rem > 0
                THEN wrapped(vf, day, streak + 1) + next[<<p_rem - 1, f_rem, streak + 1>>]
                ELSE 0,
                IF f_rem > 0
                THEN wrapped(vf, day, streak + 1) + next[<<p_rem, f_rem - 1, streak + 1>>]
                ELSE 0,
                p_rem > 0, f_rem > 0)

\* off_set of _make_plan for the days the walk recorded
run_off_set ==
    {d \in Days : is_natural_off(d) \/ d \in SeqSet(run.pto_days)
                                     \/ d \in SeqSet(run.float_days)}

\* the elements of sorted_off the block loop has not visited yet
run_off_left == {d \in run_off_set : d > run.prev}

\* the call starts: best_start = best_end = 0, best_len = 0, workdays = 0, left = 0
BeginLongestVacation ==
    /\ engine = "PTOOptimizer"
    /\ strategy = "none"
    /\ run = NoRun
    /\ ~use_gap /\ ~use_cap
    /\ run' = [pc |-> "scan", right |-> 0, left |-> 0, workdays |-> 0,
               best_len |-> 0, best_start |-> 0, best_end |-> 0,
               table |-> <<>>, day |-> 0, p_rem |-> 0, f_rem |-> 0, streak |-> 0,
               pto_days |-> <<>>, float_days |-> <<>>,
               start |-> 0, prev |-> 0, blocks |-> <<>>]
    /\ UNCHANGED <<config, strategy, plan, mplan, error, plans, history>>

\* one iteration of the loop over right
ScanStep ==
    /\ run.pc = "scan"
    /\ run.right < num_days
    /\ LET w == shrink(run.left,
                       IF ~is_natural_off(run.right) THEN run.workdays + 1
                                                     ELSE run.workdays,
                       pto_budget + floating_holidays)
       IN IF w.raised
          THEN /\ error' = "IndexError"
               /\ run' = [run EXCEPT !.pc = "raised"]
               /\ UNCHANGED <<config, plan, mplan, plans, history, strategy>>
          ELSE /\ run' = [run EXCEPT !.right = run.right + 1,
                                     !.left = w.left,
                                     !.workdays = w.workdays,
                                     !.best_len = Max(run.best_len, run.right - w.left + 1),
                                     !.best_start = IF run.right - w.left + 1 > run.best_len
                                                    THEN w.left ELSE run.best_start,
                                     !.best_end = IF run.right - w.left + 1 > run.best_len
                                                  THEN run.right ELSE run.best_end]
               /\ UNCHANGED <<config, strategy, plan, mplan, error, plans, history>>

\* _solve_dp is entered: dp returns 0.0 for day >= num_days
StartSolve ==
    /\ run.pc = "scan"
    /\ run.right >= num_days
    /\ run' = [run EXCEPT !.pc = "fill",
                          !.day = num_days - 1,
                          !.table = [d \in 0 .. num_days |->
                                        IF d = num_days
                                        THEN [k \in (0 .. pto_budget) \X (0 .. floating_holidays)
                                                     \X (0 .. num_days) |-> 0]
                                        ELSE <<>>]]
    /\ UNCHANGED <<config, strategy, plan, mplan, error, plans, history>>

\* the forward pass fills the cache of dp; a day's values are cached once the
\* values of the day after it are
FillStep ==
    /\ run.pc = "fill"
    /\ run.day >= 0
    /\ run' = [run EXCEPT !.day = run.day - 1,
                          !.table[run.day] =
                              dp_row(WindowFn(run.best_start, run.best_end), run.day, run.table[run.day + 1])]
    /\ UNCHANGED <<config, strategy, plan, mplan, error, plans, history>>

\* day, p_rem, f_rem, streak = 0, p_budget, f_budget, 0
StartWalk ==
    /\ run.pc = "fill"
    /\ run.day < 0
    /\ run' = [run EXCEPT !.pc = "walk",
                          !.day = 0,
                          !.p_rem = pto_budget
                                      - pin_from_pto(pto_budget, floating_holidays),
                          !.f_rem = floating_holidays - pin_from_float(floating_holidays),
                          !.streak = 0]
    /\ UNCHANGED <<config, strategy, plan, mplan, error, plans, history>>

\* one iteration of the backward walk
WalkStep ==
    /\ run.pc = "walk"
    /\ run.day < num_days
    /\ LET day == run.day
           action == cached_choice(WindowFn(run.best_start, run.best_end), day, run.p_rem, run.f_rem, run.streak,
                                   run.table[day + 1])
       IN run' =
            IF is_natural_off(day) THEN
                [run EXCEPT !.day = day + 1, !.streak = run.streak + 1]
            ELSE IF day \in pinned_set THEN
                IF pin_from_float(floating_holidays) > 0
                THEN [run EXCEPT !.day = day + 1, !.streak = run.streak + 1,
                                 !.float_days = Append(run.float_days, day)]
                ELSE [run EXCEPT !.day = day + 1, !.streak = run.streak + 1,
                                 !.pto_days = Append(run.pto_days, day)]
            ELSE IF is_blackout(day) THEN
                [run EXCEPT !.day = day + 1, !.streak = 0]
            ELSE IF action = "pto" THEN
                [run EXCEPT !.day = day + 1, !.streak = run.streak + 1,
                            !.p_rem = run.p_rem - 1,
                            !.pto_days = Append(run.pto_days, day)]
            ELSE IF action = "float" THEN
                [run EXCEPT !.day = day + 1, !.streak = run.streak + 1,
                            !.f_rem = run.f_rem - 1,
                            !.float_days = Append(run.float_days, day)]
            ELSE [run EXCEPT !.day = day + 1, !.streak = 0]
    /\ UNCHANGED <<config, strategy, plan, mplan, error, plans, history>>

\* _make_plan collects off_set and _extract_blocks starts at sorted_off[0]
StartBlocks ==
    /\ run.pc = "walk"
    /\ run.day >= num_days
    /\ run' = IF run_off_set = {}
              THEN [run EXCEPT !.pc = "return", !.table = <<>>]
              ELSE LET first == CHOOSE d \in run_off_set : \A e \in run_off_set : d <= e
                   IN [run EXCEPT !.pc = "blocks", !.table = <<>>,
                                  !.start = first, !.prev = first]
    /\ UNCHANGED <<config, strategy, plan, mplan, error, plans, history>>

\* one iteration of the loop over sorted_off[1:]
BlockStep ==
    /\ run.pc = "blocks"
    /\ run_off_left # {}
    /\ LET d == CHOOSE x \in run_off_left : \A e \in run_off_left : x <= e
       IN run' =
            IF d = run.prev + 1
            THEN [run EXCEPT !.prev = d]
            ELSE [run EXCEPT !.blocks =
                                 KeepBlock(run.blocks,
                                           make_block(run.start, run.prev,
                                                      SeqSet(run.pto_days),
                                                      SeqSet(run.float_days))),
                             !.start = d, !.prev = d]
    /\ UNCHANGED <<config, strategy, plan, mplan, error, plans, history>>

\* the block that is open when the loop ends
LastBlock ==
    /\ run.pc = "blocks"
    /\ run_off_left = {}
    /\ run' = [run EXCEPT !.pc = "return",
                          !.blocks = KeepBlock(run.blocks,
                                               make_block(run.start, run.prev,
                                                          SeqSet(run.pto_days),
                                                          SeqSet(run.float_days)))]
    /\ UNCHANGED <<config, strategy, plan, mplan, error, plans, history>>

\* the Plan is returned
ReturnLongestVacation ==
    /\ run.pc = "return"
    /\ run' = [run EXCEPT !.pc = "done"]
    /\ strategy' = "optimize_longest_vacation"
    /\ plan' = [name |-> "Longest Single Vacation",
                blocks |-> run.blocks,
                pto_dates |-> run.pto_days,
                floating_dates |-> run.float_days]
    /\ UNCHANGED <<config, mplan, error, plans, history>>

NextLongYear ==
    \/ BeginLongestVacation
    \/ ScanStep
    \/ StartSolve
    \/ FillStep
    \/ StartWalk
    \/ WalkStep
    \/ StartBlocks
    \/ BlockStep
    \/ LastBlock
    \/ ReturnLongestVacation

Next ==
    \/ OptimizeMaxBridges
    \/ OptimizeLongestVacation
    \/ OptimizeExtendedWeekends
    \/ OptimizeQuarterly

NextMulti ==
    \/ MultiMaxBridges
    \/ MultiLongestVacation
    \/ MultiExtendedWeekends
    \/ MultiQuarterly

NextBoth == Next \/ NextMulti

NextRepeat ==
    \/ InvokeMaxBridges
    \/ InvokeLongestVacation
    \/ InvokeExtendedWeekends
    \/ InvokeQuarterly

NextBlackout == Next \/ GenerateAllPlans

NextPartition ==
    \/ OptimizeQuarterly
    \/ MultiQuarterly

NextAny ==
    \/ Next
    \/ NextMulti
    \/ GenerateAllPlans
    \/ MultiGenerateAllPlans

\* a single-party optimizer with the default policy
Spec == Init /\ [][Next]_vars
\* a single-party optimizer with policy options
SpecPolicy == InitPolicy /\ [][Next]_vars
\* a single-party optimizer whose working days are all blacked out
SpecBlackout == InitBlackout /\ [][NextBlackout]_vars
\* a multi-group optimizer
SpecMulti == InitMulti /\ [][NextMulti]_vars
\* either engine
SpecBoth == (InitMulti \/ InitPolicy) /\ [][NextBoth]_vars
\* either engine with the default policy
SpecDefault == (Init \/ InitMulti) /\ [][NextBoth]_vars
\* optimize_longest_vacation of a single-party optimizer on the long year
SpecLongYear == InitLongYear /\ [][NextLongYear]_vars
\* the same call followed statement by statement on the scaled year
SpecFollowed == (Init \/ InitPolicy) /\ [][NextLongYear]_vars
\* the two engines on the same single party
SpecTwin == InitTwin /\ [][TwinMaxBridges \/ TwinMultiMaxBridges]_vars
\* the multi-party optimizer over groups with overlapping holidays
SpecSharedHolidays == InitSharedHolidays /\ [][NextMulti]_vars
\* a single-party optimizer whose strategies are called several times
SpecRepeat == InitRepeat /\ [][NextRepeat]_vars
\* the quarterly strategy of either engine on budgets of more than four days
SpecPartition == (InitPartitionPTO \/ InitPartitionMulti) /\ [][NextPartition]_vars
\* either constructor on unchecked arguments, then single calls or the batch
SpecAny == (InitAnyPTO \/ InitAnyMulti) /\ [][NextAny]_vars

\* ================================================================ properties
called == strategy # "none"
Workdays == {d \in Days : ~is_natural_off(d)}
SpentCount == Len(plan.pto_dates) + Len(plan.floating_dates)
PlanSpent == SeqSet(plan.pto_dates) \cup SeqSet(plan.floating_dates)
total_budget == pto_budget + floating_holidays

\* the off days of the year when the days of S are spent
OffSet(S) == {d \in Days : is_natural_off(d)} \cup S

\* 1-based position of off day d in its run of consecutive off days
RunPos(off, d) ==
    LET brk == {e \in 0 .. (d - 1) : e \notin off}
    IN IF brk = {} THEN d + 1 ELSE d - (CHOOSE e \in brk : \A x \in brk : x <= e)

\* cumulative reward of the days of S within an off-set
RECURSIVE RewardOver(_, _, _)
RewardOver(vf, off, S) ==
    IF S = {} THEN 0
    ELSE LET x == CHOOSE y \in S : TRUE
         IN value_fn(vf, x, RunPos(off, x)) + RewardOver(vf, off, S \ {x})

\* cumulative reward of an off-set under a reward function
Reward(vf, off) == RewardOver(vf, off, off)

\* the sets of working days an assignment within the budgets can spend: a set
\* splits into at most P PTO days and at most F floating days iff it has at
\* most P + F days
Affordable == {S \in SUBSET Workdays : Cardinality(S) <= total_budget}

\* the maximum cumulative reward over all assignments
BestReward(vf) ==
    LET rs == {Reward(vf, OffSet(S)) : S \in Affordable}
    IN CHOOSE r \in rs : \A x \in rs : x <= r

\* sum of L(L+1)/2 over the runs of an off-set that end on a day of S
RECURSIVE TriangleOver(_, _)
TriangleOver(off, S) ==
    IF S = {} THEN 0
    ELSE LET x == CHOOSE y \in S : TRUE
         IN (RunPos(off, x) * (RunPos(off, x) + 1)) \div 2
               + TriangleOver(off, S \ {x})

\* sum of L(L+1)/2 over the maximal runs of an off-set
TriangleSum(off) == TriangleOver(off, {d \in off : (d + 1) \notin off})

\* the reward function the strategy that ran handed to the solver
strategy_fn ==
    CASE strategy = "optimize_max_bridges" -> BridgeFn
      [] strategy = "optimize_longest_vacation" ->
            WindowFn(best_window.best_start, best_window.best_end)
      [] OTHER -> ExtendedFn

SingleSolve == {"optimize_max_bridges", "optimize_longest_vacation",
                "optimize_extended_weekends"}

\* C1: with no policy options the days the solver returns are a legal
\* assignment (working days only, at most P PTO and F floating days) whose
\* cumulative reward is the maximum over all legal assignments; under the
\* bridge reward that maximum is the largest sum of L(L+1)/2 over the runs.
C1_SolverOptimal ==
    strategy \in SingleSolve =>
        /\ PlanSpent \subseteq Workdays
        /\ Len(plan.pto_dates) <= pto_budget
        /\ Len(plan.floating_dates) <= floating_holidays
        /\ Reward(strategy_fn, OffSet(PlanSpent)) = BestReward(strategy_fn)
        /\ strategy = "optimize_max_bridges" =>
              \A S \in Affordable :
                  TriangleSum(OffSet(S)) <= TriangleSum(OffSet(PlanSpent))

\* a bridge plan that spends three days where another choice of three days
\* earns strictly less
C1_Witness ==
    /\ strategy = "optimize_max_bridges"
    /\ holidays # {}
    /\ SpentCount = 3
    /\ Reward(BridgeFn, OffSet(PlanSpent)) = BestReward(BridgeFn)
    /\ \E S \in Affordable :
          /\ Cardinality(S) = 3
          /\ Reward(BridgeFn, OffSet(S)) < Reward(BridgeFn, OffSet(PlanSpent))

\* C2: for every strategy and every combination of policy options the plan
\* spends at most pto_budget + floating_holidays days.
C2_BudgetNeverExceeded ==
    called /\ engine = "PTOOptimizer" => SpentCount <= total_budget

\* C3: the bridge strategy with no policy options spends exactly
\* B = pto_budget + floating_holidays days when B is at most the number of
\* working days of the year.
C3_BridgeUsesFullBudget ==
    (strategy = "optimize_max_bridges" /\ total_budget <= Cardinality(Workdays))
        => SpentCount = total_budget

\* a bridge plan that spent both pools in full
C3_Witness ==
    /\ strategy = "optimize_max_bridges"
    /\ pto_budget = MaxPto
    /\ floating_holidays > 0
    /\ total_budget <= Cardinality(Workdays)
    /\ Len(plan.pto_dates) = pto_budget
    /\ Len(plan.floating_dates) = floating_holidays

\* the days group g spends in the multi-group plan
GroupSpent(g) ==
    SeqSet(mplan.group_allocations[g].pto_dates)
        \cup SeqSet(mplan.group_allocations[g].floating_dates)
GroupSpentCount(g) ==
    Len(mplan.group_allocations[g].pto_dates)
        + Len(mplan.group_allocations[g].floating_dates)
mcalled == called /\ engine = "MultiGroupOptimizer"

\* the shared off-set the blocks of the plan are cut from
PlanSharedOff ==
    {d \in Days : \A g \in Groups : is_weekend(d) \/ d \in groups[g].holidays}
        \cup UNION {GroupSpent(g) : g \in Groups}

\* C4: a day is in the shared off-set of a multi-group plan iff every group
\* is off that day (naturally, or by spending it); whenever one group spends a
\* day, every group that is not naturally off that day spends it too.
C4_SharedOffSet ==
    mcalled =>
        \A d \in Days :
            /\ d \in PlanSharedOff <=>
                  \A g \in Groups : group_is_natural_off(g, d) \/ d \in GroupSpent(g)
            /\ (\E g \in Groups : d \in GroupSpent(g)) =>
                  \A g \in Groups : group_is_natural_off(g, d) \/ d \in GroupSpent(g)

\* two groups, a day one group has as a holiday and the other spends
C4_Witness ==
    /\ mcalled
    /\ num_groups = 2
    /\ \E d \in Days :
          /\ ~is_weekend(d)
          /\ group_is_holiday(1, d)
          /\ d \in GroupSpent(2)
          /\ d \in PlanSharedOff

\* C5: in every multi-group plan each group spends at most its own
\* pto_budget + floating_holidays days; a group with no budget spends none.
C5_GroupBudget ==
    mcalled =>
        \A g \in Groups :
            /\ GroupSpentCount(g) <= groups[g].pto_budget + groups[g].floating_holidays
            /\ (groups[g].pto_budget + groups[g].floating_holidays = 0) =>
                  (/\ mplan.group_allocations[g].pto_dates = <<>>
                   /\ mplan.group_allocations[g].floating_dates = <<>>)

\* a group without budget spends nothing although the other group holds
\* budget and a bridge is open
C5_Witness ==
    /\ mcalled
    /\ num_groups = 2
    /\ groups[1].pto_budget + groups[1].floating_holidays = 0
    /\ groups[2].pto_budget = MaxPto
    /\ GroupSpentCount(1) = 0
    /\ \E d \in Days : group_is_holiday(1, d) /\ ~is_weekend(d) /\ d \in GroupSpent(2)

\* C6: every pinned date of the year is among the spent dates of the plan,
\* for every budget and every strategy.
C6_PinnedAlwaysSpent ==
    called /\ engine = "PTOOptimizer" => pinned_dates \subseteq PlanSpent

InMonth(dates, m) == Cardinality({i \in DOMAIN dates : month_of(dates[i]) = m})

\* C8: with a monthly cap, no month holds more spent dates than the cap.
C8_MonthlyCapHard ==
    (called /\ engine = "PTOOptimizer" /\ monthly_pto_cap # NoneVal) =>
        \A m \in Months :
            InMonth(plan.pto_dates, m) + InMonth(plan.floating_dates, m)
                <= monthly_pto_cap

\* Monday-to-Friday days strictly between two days
WeekdaysBetween(a, b) == Cardinality({d \in (a + 1) .. (b - 1) : ~is_weekend(d)})

\* C9: with a minimum gap G > 0, any two consecutive blocks of the plan are
\* separated by at least G Monday-to-Friday days.
C9_MinGapBetweenBlocks ==
    (called /\ engine = "PTOOptimizer" /\ min_gap_days > 0) =>
        \A i \in 1 .. (Len(plan.blocks) - 1) :
            WeekdaysBetween(plan.blocks[i].end_date, plan.blocks[i + 1].start_date)
                >= min_gap_days

\* C10: no spent date of a single-party plan is a weekend or a holiday, and
\* no spent date of a group in a multi-group plan is a weekend or a holiday of
\* that group.
C10_SpentOnlyOnWorkingDays ==
    /\ (called /\ engine = "PTOOptimizer") =>
          \A d \in PlanSpent : ~is_weekend(d) /\ ~is_holiday(d)
    /\ mcalled =>
          \A g \in Groups : \A d \in GroupSpent(g) :
              ~is_weekend(d) /\ d \notin groups[g].holidays

\* a multi-group plan in which one group spends a day that is a holiday of
\* the other group
C10_Witness ==
    /\ mcalled
    /\ num_groups = 2
    /\ \E d \in Days :
          /\ group_is_holiday(2, d)
          /\ ~group_is_natural_off(1, d)
          /\ d \in GroupSpent(1)
          /\ d \notin GroupSpent(2)

\* C11: with pto_budget = 0 and floating_holidays = 0 and the default policy,
\* every strategy returns no PTO dates, no floating dates and no blocks.
C11_ZeroBudgetEmptyPlan ==
    (called /\ engine = "PTOOptimizer" /\ pto_budget = 0 /\ floating_holidays = 0) =>
        /\ plan.pto_dates = <<>>
        /\ plan.floating_dates = <<>>
        /\ plan.blocks = <<>>

\* a zero-budget quarterly plan on a calendar with a holiday next to a weekend
C11_Witness ==
    /\ strategy = "optimize_quarterly"
    /\ pto_budget = 0
    /\ floating_holidays = 0
    /\ \E h \in holidays : ~is_weekend(h) /\ is_weekend(h + 1)
    /\ plan.name = "Quarterly Balance"
    /\ plan.blocks = <<>>

\* the maximal runs a .. b of consecutive days of off that hold a day of spent
RunsWithSpend(off, spent) ==
    {r \in Days \X Days :
        /\ r[1] <= r[2]
        /\ \A d \in r[1] .. r[2] : d \in off
        /\ (r[1] - 1) \notin off
        /\ (r[2] + 1) \notin off
        /\ \E d \in r[1] .. r[2] : d \in spent}

\* blocks lists exactly those runs, in ascending order
BlocksExact(blocks, off, spent) ==
    /\ {<<blocks[i].start_date, blocks[i].end_date>> : i \in DOMAIN blocks}
          = RunsWithSpend(off, spent)
    /\ \A i \in 1 .. (Len(blocks) - 1) : blocks[i].end_date < blocks[i + 1].start_date
    /\ \A i \in DOMAIN blocks :
          /\ blocks[i].pto_days >= 1
          /\ (blocks[i].start_date - 1) \notin off
          /\ (blocks[i].end_date + 1) \notin off
    /\ \A d \in spent :
          Cardinality({i \in DOMAIN blocks :
                          blocks[i].start_date <= d /\ d <= blocks[i].end_date}) = 1

MultiSpent == UNION {GroupSpent(g) : g \in Groups}

\* C12: the blocks of a plan of either engine are exactly the maximal runs of
\* consecutive off days that contain a spent day, in ascending order; a block
\* cannot be extended on either side, has pto_days >= 1, every spent day lies
\* in exactly one block, and a run of natural days off alone gives no block.
C12_BlocksExact ==
    /\ (called /\ engine = "PTOOptimizer") =>
          BlocksExact(plan.blocks, OffSet(PlanSpent), PlanSpent)
    /\ mcalled => BlocksExact(mplan.blocks, PlanSharedOff, MultiSpent)

\* a single-party plan with two blocks and a naturally-off day outside them
C12_Witness ==
    /\ called
    /\ engine = "PTOOptimizer"
    /\ Len(plan.blocks) >= 2
    /\ \E i \in DOMAIN plan.blocks : plan.blocks[i].total_days >= 3
    /\ \E d \in Days :
          /\ is_natural_off(d)
          /\ \A i \in DOMAIN plan.blocks :
                d < plan.blocks[i].start_date \/ d > plan.blocks[i].end_date

\* the blocks of the plan that was returned, whichever engine returned it
ReturnedBlocks ==
    IF engine = "PTOOptimizer" THEN SeqSet(plan.blocks) ELSE SeqSet(mplan.blocks)

\* C13: every block of every plan of either engine has total_days equal to
\* the number of days from start_date to end_date inclusive.
C13_TotalDays ==
    called =>
        \A b \in ReturnedBlocks :
            /\ b.total_days = (b.end_date - b.start_date) + 1
            /\ b.total_days = Cardinality(b.start_date .. b.end_date)

\* a multi-group plan with a block of at least four days
C13_Witness ==
    /\ mcalled
    /\ \E b \in SeqSet(mplan.blocks) :
          /\ b.total_days >= 4
          /\ b.total_days = (b.end_date - b.start_date) + 1

\* C14: in every block of every plan, for every set of holidays (holidays on
\* a Saturday or Sunday included), pto_days + holidays + weekend_days is at
\* most total_days.
C14_BlockCountsAddUp ==
    called =>
        \A b \in ReturnedBlocks :
            b.pto_days + b.holidays + b.weekend_days <= b.total_days

\* a list of day indices in ascending order
Ascending(dates) == \A i \in 1 .. (Len(dates) - 1) : dates[i] < dates[i + 1]

\* C15: in every multi-group plan, for each group with floating budget F and
\* n spent days, floating_dates are the min(F, n) earliest spent dates and
\* pto_dates the remaining later ones, both in ascending order; hence
\* len(floating_dates) <= floating_holidays and len(pto_dates) <= pto_budget.
C15_FloatingSplit ==
    mcalled =>
        \A g \in Groups :
            LET a == mplan.group_allocations[g]
            IN /\ Len(a.floating_dates)
                    = Min(groups[g].floating_holidays, GroupSpentCount(g))
               /\ Ascending(a.floating_dates)
               /\ Ascending(a.pto_dates)
               /\ \A i \in DOMAIN a.floating_dates : \A j \in DOMAIN a.pto_dates :
                     a.floating_dates[i] < a.pto_dates[j]
               /\ Len(a.floating_dates) <= groups[g].floating_holidays
               /\ Len(a.pto_dates) <= groups[g].pto_budget

\* the strategies of the batch that do not raise, in the order of the list
Surviving == SelectSeq(strategies, LAMBDA n : ~strategy_raises(n))
MultiSurviving == SelectSeq(strategies, LAMBDA n : ~mg_strategy_raises(n))

\* C16: generate_all_plans of either engine returns exactly the plans of the
\* strategies that did not raise, in the order bridges, longest vacation,
\* extended weekends, quarterly (four plans when none raises); a strategy that
\* raises is skipped, the later ones still run, and no exception escapes.
C16_BatchIsolatesFailures ==
    strategy = "generate_all_plans" =>
        /\ error = "none"
        /\ engine = "PTOOptimizer" =>
              /\ Len(plans) = Len(Surviving)
              /\ \A i \in DOMAIN plans : plans[i] = strategy_plan(Surviving[i])
              /\ (\A i \in DOMAIN strategies : ~strategy_raises(strategies[i]))
                    => Len(plans) = 4
        /\ engine = "MultiGroupOptimizer" =>
              /\ Len(plans) = Len(MultiSurviving)
              /\ \A i \in DOMAIN plans : plans[i] = mg_strategy_plan(MultiSurviving[i])
              /\ (\A i \in DOMAIN strategies : ~mg_strategy_raises(strategies[i]))
                    => Len(plans) = 4

\* a batch whose second strategy raised: the two later strategies still ran
C16_Witness ==
    /\ strategy = "generate_all_plans"
    /\ engine = "PTOOptimizer"
    /\ strategy_raises("optimize_longest_vacation")
    /\ error = "none"
    /\ Len(plans) = 3
    /\ plans[1].name = "Bridge Optimizer"
    /\ plans[2].name = "Extended Weekends"
    /\ plans[3].name = "Quarterly Balance"

\* every two recorded calls of the same strategy returned the same plan
SameAgain ==
    \A i, j \in DOMAIN history :
        history[i].strategy = history[j].strategy => history[i].plan = history[j].plan

C18_EmptyGroupsRejected ==
    /\ engine = "MultiGroupOptimizer" => groups # <<>>
    /\ engine = "none" =>
          /\ groups = <<>>
          /\ error = "ValueError"
          /\ Fresh
          /\ ~ENABLED NextAny

\* the constructor was handed an empty list and raised
C18_Witness == groups = <<>> /\ engine = "none" /\ error = "ValueError"

\* C19: negative budgets (PTO or floating, for the single party or for any
\* group) are rejected at construction: no optimizer exists with one.
C19_NegativeBudgetsRejected ==
    /\ engine = "PTOOptimizer" => pto_budget >= 0 /\ floating_holidays >= 0
    /\ engine = "MultiGroupOptimizer" =>
          \A g \in DOMAIN groups :
              groups[g].pto_budget >= 0 /\ groups[g].floating_holidays >= 0

\* the checks of one contested day of the walk: the action has the value of
\* the optimum, spending was a strict improvement over work, and a floating
\* day was taken only with no PTO left
StepRespectsOrder(action, opt, work_val, vp, vfl, p_rem, f_rem) ==
    /\ action = "work" => work_val = opt
    /\ action = "pto" => p_rem > 0 /\ vp = opt /\ work_val < opt
    /\ action = "float" => f_rem > 0 /\ vfl = opt /\ work_val < opt /\ p_rem = 0
    /\ (p_rem > 0 /\ f_rem > 0) => vp = vfl

RECURSIVE WalkRespectsOrder(_, _, _, _, _)
\* one contested day of the walk, given the values of its three transitions,
\* then the rest of the walk from the state the chosen action leads to
WalkStepRespectsOrder(vf, day, p_rem, f_rem, streak, work_val, vp, vfl) ==
    /\ StepRespectsOrder(best_action(work_val, vp, vfl, p_rem > 0, f_rem > 0),
                         best_value(work_val, vp, vfl, p_rem > 0, f_rem > 0),
                         work_val, vp, vfl, p_rem, f_rem)
    /\ CASE best_action(work_val, vp, vfl, p_rem > 0, f_rem > 0) = "pto" ->
              WalkRespectsOrder(vf, day + 1, p_rem - 1, f_rem, streak + 1)
         [] best_action(work_val, vp, vfl, p_rem > 0, f_rem > 0) = "float" ->
              WalkRespectsOrder(vf, day + 1, p_rem, f_rem - 1, streak + 1)
         [] OTHER -> WalkRespectsOrder(vf, day + 1, p_rem, f_rem, 0)

\* follows the backward walk from a state and checks every contested day
WalkRespectsOrder(vf, day, p_rem, f_rem, streak) ==
    IF day >= num_days THEN TRUE
    ELSE IF is_natural_off(day) THEN WalkRespectsOrder(vf, day + 1, p_rem, f_rem, streak + 1)
    ELSE WalkStepRespectsOrder(vf, day, p_rem, f_rem, streak,
            dp(vf, day + 1, p_rem, f_rem, 0),
            wrapped(vf, day, streak + 1) + dp(vf, day + 1, p_rem - 1, f_rem, streak + 1),
            wrapped(vf, day, streak + 1) + dp(vf, day + 1, p_rem, f_rem - 1, streak + 1))

\* the walk meets a day where working and spending a unit have the same value
RECURSIVE WalkMeetsTie(_, _, _, _, _)
WalkMeetsTie(vf, day, p_rem, f_rem, streak) ==
    IF day >= num_days THEN FALSE
    ELSE IF is_natural_off(day) THEN WalkMeetsTie(vf, day + 1, p_rem, f_rem, streak + 1)
    ELSE
        LET incr == wrapped(vf, day, streak + 1)
            action == Choice(vf, day, p_rem, f_rem, streak)
            work_val == dp(vf, day + 1, p_rem, f_rem, 0)
        IN \/ /\ p_rem > 0
              /\ f_rem > 0
              /\ work_val > 0
              /\ work_val = incr + dp(vf, day + 1, p_rem - 1, f_rem, streak + 1)
           \/ CASE action = "pto" -> WalkMeetsTie(vf, day + 1, p_rem - 1, f_rem, streak + 1)
                [] action = "float" -> WalkMeetsTie(vf, day + 1, p_rem, f_rem - 1, streak + 1)
                [] OTHER -> WalkMeetsTie(vf, day + 1, p_rem, f_rem, 0)

\* C20: in the backward walk of the single-party solver the action chosen on a
\* contested workday has the value of the memoized optimum; at equal value
\* work is preferred over spending and PTO over floating, so a floating day is
\* chosen only where no PTO budget remains and every floating date the solver
\* chose is later than every PTO date it chose.  Checked for the solve of each
\* single-solve strategy and for a solve on the whole budgets under the reward
\* of each quarter.
C20_TieBreakOrder ==
    /\ strategy \in SingleSolve =>
          /\ WalkRespectsOrder(strategy_fn, 0, pto_budget, floating_holidays, 0)
          /\ \A i \in DOMAIN plan.pto_dates : \A j \in DOMAIN plan.floating_dates :
                 plan.pto_dates[i] < plan.floating_dates[j]
    /\ strategy = "optimize_quarterly" =>
          \A qi \in 1 .. 4 :
              LET vf == QuarterFn(quarter_bounds[qi][1], quarter_bounds[qi][2])
                  r == solve_dp(vf, pto_budget, floating_holidays)
              IN /\ WalkRespectsOrder(vf, 0, pto_budget, floating_holidays, 0)
                 /\ \A i \in DOMAIN r.pto : \A j \in DOMAIN r.flt : r.pto[i] < r.flt[j]

\* a bridge solve that met a tie between working and spending with both kinds
\* of unit in hand, and spent PTO and floating days
C20_Witness ==
    /\ strategy = "optimize_max_bridges"
    /\ plan.pto_dates # <<>>
    /\ plan.floating_dates # <<>>
    /\ WalkMeetsTie(BridgeFn, 0, pto_budget, floating_holidays, 0)

\* the days of quarter qi
QuarterDays(qi) == quarter_bounds[qi][1] .. quarter_bounds[qi][2]

\* what the solve of quarter qi returns in the loop of optimize_quarterly,
\* given the number of floating days the earlier quarters returned
QuarterSolveFrom(qi, floats_before) ==
    LET q_budget == quarter_budget(qi)
        float_for_q == Max(0, Min(floating_holidays - floats_before, q_budget))
    IN IF q_budget = 0 THEN [pto |-> <<>>, flt |-> <<>>]
       ELSE solve_dp(QuarterFn(quarter_bounds[qi][1], quarter_bounds[qi][2]),
                     q_budget - float_for_q, float_for_q)

RECURSIVE QuarterSolve(_)
QuarterFloatsBefore(qi) ==
    IF qi = 1 THEN 0
    ELSE Len(QuarterSolve(1).flt)
           + (IF qi > 2 THEN Len(QuarterSolve(2).flt) ELSE 0)
           + (IF qi > 3 THEN Len(QuarterSolve(3).flt) ELSE 0)
QuarterSolve(qi) == QuarterSolveFrom(qi, QuarterFloatsBefore(qi))

\* the days the multi-group solve of quarter qi spends, over all groups
MultiQuarterSolve(qi) ==
    IF \A g \in Groups : quarter_budgets(qi)[g] = 0 THEN {}
    ELSE all_pto_set(mg_solve_dp(QuarterFn(quarter_bounds[qi][1], quarter_bounds[qi][2]),
                                 quarter_budgets(qi)))

\* C21: every day a per-quarter solve of optimize_quarterly spends lies inside
\* that quarter (either engine), so the spent days inside a quarter number at
\* most the budget assigned to the quarter.
C21_QuarterlyStaysInQuarter ==
    /\ (engine = "PTOOptimizer" /\ strategy = "optimize_quarterly") =>
          \A qi \in 1 .. 4 :
              /\ SeqSet(QuarterSolve(qi).pto) \cup SeqSet(QuarterSolve(qi).flt)
                    \subseteq QuarterDays(qi)
              /\ Cardinality({i \in DOMAIN plan.pto_dates : plan.pto_dates[i] \in QuarterDays(qi)})
                   + Cardinality({i \in DOMAIN plan.floating_dates :
                                     plan.floating_dates[i] \in QuarterDays(qi)})
                   <= quarter_budget(qi)
    /\ (engine = "MultiGroupOptimizer" /\ strategy = "optimize_quarterly") =>
          \A qi \in 1 .. 4 : MultiQuarterSolve(qi) \subseteq QuarterDays(qi)

\* C22: pinned working days take from the floating pool first, then from PTO:
\* with k of them, exactly min(F, k) are reported in floating_dates and the
\* others in pto_dates, so the plan of a single solve lists at most F floating
\* dates and at most P PTO dates.
C22_PinnedFloatingFirst ==
    (called /\ engine = "PTOOptimizer" /\ strategy \in SingleSolve) =>
        /\ Cardinality(pinned_set \cap SeqSet(plan.floating_dates))
              = Min(floating_holidays, pinned_count)
        /\ (pinned_set \ SeqSet(plan.floating_dates)) \subseteq SeqSet(plan.pto_dates)
        /\ Len(plan.floating_dates) <= floating_holidays
        /\ Len(plan.pto_dates) <= pto_budget

\* the budgets bud of the four quarters split total as the claim describes,
\* given the holiday counts cnt of the quarters
PartitionOK(total, cnt, bud) ==
    /\ \A qi \in 1 .. 4 : bud[qi] \in {total \div 4, (total \div 4) + 1}
    /\ Cardinality({qi \in 1 .. 4 : bud[qi] = (total \div 4) + 1}) = total % 4
    /\ \A qi, qj \in 1 .. 4 :
          (bud[qi] = (total \div 4) + 1 /\ bud[qj] = total \div 4) =>
              \/ cnt[qi] > cnt[qj]
              \/ (cnt[qi] = cnt[qj] /\ qi < qj)
    /\ bud[1] + bud[2] + bud[3] + bud[4] = total
    /\ \A qi, qj \in 1 .. 4 : bud[qi] - bud[qj] <= 1

\* holidays of a set per quarter
HolidaysPerQuarter(H) == [qi \in 1 .. 4 |-> Cardinality(H \cap QuarterDays(qi))]

\* C23: optimize_quarterly assigns each quarter total // 4 days plus one extra
\* day to the total % 4 quarters with the most holidays, ties going to the
\* lower quarter index; the four budgets sum to total and differ by at most 1;
\* the multi-group engine does the same for every group.  Each solve of the
\* single-party engine is handed, and returns, no more than its quarter's share.
C23_QuarterlyPartition ==
    /\ (engine = "PTOOptimizer" /\ strategy = "optimize_quarterly") =>
          /\ PartitionOK(pto_budget + floating_holidays, HolidaysPerQuarter(holidays),
                         [qi \in 1 .. 4 |-> quarter_budget(qi)])
          /\ \A qi \in 1 .. 4 :
                Len(QuarterSolve(qi).pto) + Len(QuarterSolve(qi).flt) <= quarter_budget(qi)
    /\ (engine = "MultiGroupOptimizer" /\ strategy = "optimize_quarterly") =>
          \A g \in Groups :
              PartitionOK(groups[g].pto_budget + groups[g].floating_holidays,
                          HolidaysPerQuarter(groups[g].holidays),
                          [qi \in 1 .. 4 |-> quarter_budgets(qi)[g]])

\* a quarterly plan on a total above four with a remainder, where the extra
\* days went to later quarters because they hold more holidays
C23_Witness ==
    /\ engine = "PTOOptimizer"
    /\ strategy = "optimize_quarterly"
    /\ pto_budget + floating_holidays = 6
    /\ holidays = {4, 5, 7}
    /\ quarter_budget(1) = 1
    /\ quarter_budget(2) = 1
    /\ quarter_budget(3) = 2
    /\ quarter_budget(4) = 2
    /\ SpentCount > 4

\* the days of a..b that are not naturally off
WorkdaysIn(a, b) == Cardinality({d \in a .. b : ~is_natural_off(d)})

\* C24: for every calendar and total budget T >= 0, the window the scan of
\* PTOOptimizer.optimize_longest_vacation chooses is a range of days of the
\* year with at most T working days; no range with at most T working days is
\* longer, and of the longest such ranges it is the earliest.
C24_LongestWindow ==
    (engine = "PTOOptimizer" /\ strategy = "optimize_longest_vacation") =>
        /\ ~best_window.raised
        /\ best_window.best_start \in Days
        /\ best_window.best_end \in Days
        /\ best_window.best_start <= best_window.best_end
        /\ best_window.best_len = best_window.best_end - best_window.best_start + 1
        /\ WorkdaysIn(best_window.best_start, best_window.best_end) <= total_budget
        /\ \A a, b \in Days :
              (a <= b /\ WorkdaysIn(a, b) <= total_budget) =>
                  \/ b - a + 1 < best_window.best_len
                  \/ (b - a + 1 = best_window.best_len /\ a >= best_window.best_start)

\* a scan that had to shrink, whose window holds exactly T working days, with
\* a later range of the same length that it did not choose
C24_Witness ==
    /\ engine = "PTOOptimizer"
    /\ strategy = "optimize_longest_vacation"
    /\ total_budget >= 1
    /\ best_window.best_start > 0
    /\ WorkdaysIn(best_window.best_start, best_window.best_end) = total_budget
    /\ \E a, b \in Days :
          /\ a > best_window.best_start
          /\ b - a + 1 = best_window.best_len
          /\ WorkdaysIn(a, b) <= total_budget

\* the days of the window the longest-vacation scan selected
WindowDays ==
    IF run # NoRun THEN run.best_start .. run.best_end
    ELSE IF engine = "PTOOptimizer"
    THEN best_window.best_start .. best_window.best_end
    ELSE mg_best_window.best_start .. mg_best_window.best_end

\* C25: in the plan of optimize_longest_vacation (either engine, no policy
\* options) every day of the selected window is off: each working day of the
\* window is spent, by every group that is not naturally off that day; when
\* the window holds a working day the plan has a block at least as long as
\* the window, and only the budget the window leaves is spent outside it.
\* In a year of NumDays days no run of days off earns as much as WindowBonus
\* and the plans satisfy this; in the long year joining two runs of 34 days
\* earns more than the bonus of the one working day of the window.
C25_WindowIsFilled ==
    /\ (engine = "PTOOptimizer" /\ strategy = "optimize_longest_vacation"
            /\ error = "none") =>
          /\ \A d \in WindowDays : is_natural_off(d) \/ d \in PlanSpent
          /\ (\E d \in WindowDays : ~is_natural_off(d)) =>
                \E i \in DOMAIN plan.blocks :
                    plan.blocks[i].total_days >= Cardinality(WindowDays)
          /\ Cardinality(PlanSpent \ WindowDays)
                <= total_budget - Cardinality({d \in WindowDays : ~is_natural_off(d)})
    /\ (engine = "MultiGroupOptimizer" /\ strategy = "optimize_longest_vacation"
            /\ error = "none") =>
          /\ \A d \in WindowDays : \A g \in Groups :
                group_is_natural_off(g, d) \/ d \in GroupSpent(g)
          /\ (\E d \in WindowDays : ~all_natural_off(d)) =>
                \E i \in DOMAIN mplan.blocks :
                    mplan.blocks[i].total_days >= Cardinality(WindowDays)
          /\ \A g \in Groups :
                Cardinality(GroupSpent(g) \ WindowDays)
                   <= group_budgets[g]
                        - Cardinality({d \in WindowDays : ~group_is_natural_off(g, d)})

\* the call followed statement by statement chooses the window and returns the
\* plan that optimize_longest_vacation gives in one step (on SpecFollowed)
FollowedCallAgrees ==
    run.pc = "done" =>
        /\ run.best_start = best_window.best_start
        /\ run.best_end = best_window.best_end
        /\ plan = optimize_longest_vacation

\* the days the bridge strategy would spend on the same optimizer
BridgeSpent ==
    SeqSet(optimize_max_bridges.pto_dates) \cup SeqSet(optimize_max_bridges.floating_dates)

\* C26: in the plan of optimize_extended_weekends (either engine, no policy
\* options) no spent day is at position 5 or later within its run of
\* consecutive off days, counted from the start of the run.
C26_NoSpendPastFour ==
    /\ (engine = "PTOOptimizer" /\ strategy = "optimize_extended_weekends") =>
          \A d \in PlanSpent : RunPos(OffSet(PlanSpent), d) <= ShortBreakLen
    /\ (engine = "MultiGroupOptimizer" /\ strategy = "optimize_extended_weekends") =>
          \A d \in MultiSpent : RunPos(PlanSharedOff, d) <= ShortBreakLen

\* an extended-weekends plan with a spent day at position 4, on an optimizer
\* whose bridge plan spends a day at position 5 or later
C26_Witness ==
    /\ engine = "PTOOptimizer"
    /\ strategy = "optimize_extended_weekends"
    /\ \E d \in PlanSpent : RunPos(OffSet(PlanSpent), d) = ShortBreakLen
    /\ \E d \in BridgeSpent : RunPos(OffSet(BridgeSpent), d) > ShortBreakLen

\* a plan that was returned and spends nothing
EmptyPlan(p) ==
    /\ p.name # "none"
    /\ p.pto_dates = <<>>
    /\ p.floating_dates = <<>>
    /\ p.blocks = <<>>

\* C27: when every working day of the year is a blackout date and no date is
\* pinned, then with a positive budget every strategy returns normally with a
\* plan that has no spent dates and no blocks; the unused budget is no error.
C27_BlackedOutYear ==
    (engine = "PTOOptimizer" /\ Workdays \subseteq blackout_dates
        /\ pinned_dates = {} /\ total_budget > 0) =>
        /\ error = "none"
        /\ strategy \in SingleSolve \cup {"optimize_quarterly"} => EmptyPlan(plan)
        /\ strategy = "generate_all_plans" =>
              /\ Len(plans) = 4
              /\ \A i \in DOMAIN plans : EmptyPlan(plans[i])

\* a strategy returned on a blacked-out year with the whole budget in hand
C27_Witness ==
    /\ engine = "PTOOptimizer"
    /\ strategy = "optimize_max_bridges"
    /\ Workdays # {}
    /\ Workdays \subseteq blackout_dates
    /\ pinned_dates = {}
    /\ pto_budget = MaxPto
    /\ floating_holidays = MaxFloat
    /\ EmptyPlan(plan)

\* C28: in the plan of each of the four single-party strategies, pinned dates
\* or not, pto_dates is strictly ascending, floating_dates is strictly
\* ascending and the two share no date, so the number of listed dates is the
\* number of distinct spent days.
C28_NoDaySpentTwice ==
    (engine = "PTOOptimizer" /\ strategy \in SingleSolve \cup {"optimize_quarterly"}
        /\ error = "none") =>
        /\ Ascending(plan.pto_dates)
        /\ Ascending(plan.floating_dates)
        /\ SeqSet(plan.pto_dates) \cap SeqSet(plan.floating_dates) = {}
        /\ SpentCount = Cardinality(PlanSpent)


\* the days of a block of a multi-party plan by kind
BlockWeekendDays(b) == {d \in b.start_date .. b.end_date : is_weekend(d)}
BlockSharedHolidays(b) ==
    {d \in b.start_date .. b.end_date :
        ~is_weekend(d) /\ \A g \in Groups : group_is_holiday(g, d)}
BlockSpentDays(b) == {d \in b.start_date .. b.end_date : d \in MultiSpent}

\* C29: in every block of a multi-party plan each day is exactly one of: a
\* weekend day, a non-weekend day that is a holiday for every group, a day
\* spent by at least one group; pto_days, holidays and weekend_days count
\* these three kinds and add up to total_days.
C29_MultiBlockPartition ==
    mcalled =>
        \A b \in SeqSet(mplan.blocks) :
            /\ BlockWeekendDays(b) \cup BlockSharedHolidays(b) \cup BlockSpentDays(b)
                  = b.start_date .. b.end_date
            /\ BlockWeekendDays(b) \cap BlockSharedHolidays(b) = {}
            /\ BlockWeekendDays(b) \cap BlockSpentDays(b) = {}
            /\ BlockSharedHolidays(b) \cap BlockSpentDays(b) = {}
            /\ b.weekend_days = Cardinality(BlockWeekendDays(b))
            /\ b.holidays = Cardinality(BlockSharedHolidays(b))
            /\ b.pto_days = Cardinality(BlockSpentDays(b))
            /\ b.pto_days + b.holidays + b.weekend_days = b.total_days

\* a multi-party block with days of all three kinds, in a year where some
\* group has a holiday on a weekend day and the groups' holidays differ
C29_Witness ==
    /\ mcalled
    /\ \E g \in Groups : \E d \in Days : is_weekend(d) /\ group_is_holiday(g, d)
    /\ \E b \in SeqSet(mplan.blocks) :
          /\ BlockWeekendDays(b) # {}
          /\ BlockSharedHolidays(b) # {}
          /\ BlockSpentDays(b) # {}
          /\ \E d \in BlockSpentDays(b) : \E g \in Groups : group_is_holiday(g, d)


\* the (start_date, end_date) ranges of a list of blocks, in order
BlockRanges(blocks) ==
    [i \in DOMAIN blocks |-> <<blocks[i].start_date, blocks[i].end_date>>]

\* C30: with no policy option, MultiGroupOptimizer.optimize_max_bridges on the
\* single group (H, P, F) spends exactly the set of days that
\* PTOOptimizer.optimize_max_bridges spends on (H, P, F), and the two plans
\* have the same block date ranges.
C30_OneGroupRefinesSingle ==
    (plan # NoPlan /\ mplan # NoMPlan) =>
        /\ GroupSpent(1) = PlanSpent
        /\ BlockRanges(mplan.blocks) = BlockRanges(plan.blocks)

\* both twins returned a plan that spends floating and PTO days in a block
\* with a holiday, and the two plans label the days differently
C30_Witness ==
    /\ plan # NoPlan
    /\ mplan # NoMPlan
    /\ Len(plan.floating_dates) >= 1
    /\ Len(plan.pto_dates) >= 2
    /\ \E i \in DOMAIN mplan.blocks : mplan.blocks[i].holidays >= 1
    /\ mplan.group_allocations[1].floating_dates # plan.floating_dates
    /\ GroupSpent(1) = PlanSpent

====
